---- MODULE Spec2Model ----
(***************************************************************************)
(* A model of the tracing-tape chapter writer                              *)
(* (tracing-tape-recorder/src/lib.rs), of the records the recorder's       *)
(* callbacks put on the tape and of the tape parser                        *)
(* (tracing-tape-parser/src/lib.rs).                                       *)
(*                                                                         *)
(* Spec is the writer, at the granularity of its shared-memory accesses:   *)
(* every atomic load / store / fetch_add of one write call, of             *)
(* Chapter::finish and of Drop is one step of the calling thread.  A spin  *)
(* loop is a step that is enabled only once the awaited value is there.    *)
(* The chapter size is scaled down from 2^20 to 2^ChapterSizePot bytes; a  *)
(* record is a run of `size` equal bytes carrying the id of its write      *)
(* call.                                                                   *)
(*                                                                         *)
(* TapeSpec is the recording of callsites, events and spans by several     *)
(* threads, record by record, followed by Tape::parse of what is on the    *)
(* tape when the recording stops.  OrderSpec is the same for a program     *)
(* whose callsites are registered before the threads start.  ReadSpec is   *)
(* Tape::parse on the files one thread records with every callback of the  *)
(* layer, among them records of other versions of the format, read whole,  *)
(* cut short or with another Intro.                                        *)
(***************************************************************************)
EXTENDS Integers, Sequences, FiniteSets, TLC

(***************************************************************************)
(* Bounds of the model.                                                    *)
(***************************************************************************)
NThreads == 2            \* writer threads
MaxCalls == 5            \* accepted write calls of the threads, in total
MaxSize == 3             \* sizes offered to write: 1..MaxSize
MaxPrefix == 15          \* one-byte records written before the threads start
MaxCallsCopy == 6        \* accepted write calls in CopySpec

(***************************************************************************)
(* Program constants.  chapter_size_pot is 20 in with_file; the model      *)
(* keeps every computation of the code and only shrinks the chapter.       *)
(***************************************************************************)
ChapterSizePot == 3
IntroSize == 32

Pow2(n) == IF n = 0 THEN 1 ELSE IF n = 1 THEN 2 ELSE IF n = 2 THEN 4
           ELSE IF n = 3 THEN 8 ELSE IF n = 4 THEN 16 ELSE 32
ChapterSize == Pow2(ChapterSizePot)
ChapterOffsetMask == ChapterSize - 1

\* u64::MAX, the value finish stores into data_offset.  It is kept as -1,
\* its value modulo 2^64, so that the wrapping subtraction of finish
\* (end_offset - data_offset) is the integer subtraction below.
Sentinel == 0 - 1
\* A byte the allocator left in a fresh buffer (std::alloc::alloc does not
\* initialise): any value, here one that is neither zero nor a record byte.
Junk == 0 - 2

Dropper == 0
Threads == 1..NThreads
Procs == {Dropper} \cup Threads
Slots == {0, 1}
Bytes == 0..(ChapterSize - 1)

\* offset & chapter_offset_mask
InChapter(off) == off % ChapterSize
\* offset >> chapter_size_pot
ChapterIndex(off) == off \div ChapterSize
\* chapters[(chapter_index & 1)]
SlotOf(k) == k % 2
\* The id carried by the bytes of the record of the n-th accepted write call
\* (never 0).
RecId(n) == n

\* the check with >= in place of >: a record of exactly a quarter chapter is
\* refused
TooLarge_AtLeast(sz) == sz >= ChapterSize \div 4
\* size > chapter_size >> 2
TooLarge(sz) == sz > ChapterSize \div 4
\* a load in place of the fetch_add: the counter is not advanced
FetchAdd_NoAdd(old, sz) == old
\* offset.fetch_add(size): the new value of the counter
FetchAdd(old, sz) == old + sz
\* the test without the record's end: every record is copied where it was
\* reserved
SameChapter_StartOnly(start, sz) == ChapterIndex(start) = ChapterIndex(start)
\* data_start_chapter == data_end_chapter
SameChapter(start, sz) == ChapterIndex(start) = ChapterIndex(start + sz - 1)
\* the chapter's offset without the intro
FileOffset_NoIntro(k) == k * ChapterSize
\* INTRO_SIZE + chapter_index * chapter_size
FileOffset(k) == IntroSize + k * ChapterSize
\* the loop of finish left at once
Written_NoWait(bytes, expected) == TRUE
\* finish leaves its loop: bytes_written == expected_bytes_written
Written(bytes, expected) == bytes = expected
\* the loop of chapter() left at once
HoldsChapter_NoWait(index, k) == TRUE
\* chapter() leaves its loop: chapter.chapter_index.load(Acquire) is
\* chapter_index
HoldsChapter(index, k) == index = k
\* the slot handed on to the chapter that follows
NextChapterIndex_Following(k) == k + 1
\* the next_chapter_index that write and drop pass to finish:
\* data_start_chapter + 2
NextChapterIndex(k) == k + 2
\* end_offset - data_offset, in u64 arithmetic
Expected(end, doff) == end - doff
\* the next chapter's data_offset left at 0 after a straddle
NextChapterOffset_Zero(data_end) == 0
\* data_end & chapter_offset_mask, the next chapter's data_offset after a
\* straddle
NextChapterOffset(data_end) == InChapter(data_end)
\* the bytes a zero-fill of byte_range_mut(from, len) touches
FillZero(buf, from, len) ==
    [i \in Bytes |-> IF i >= from /\ i < from + len THEN 0 ELSE buf[i]]
\* f(byte_range_mut(from, len)): the record's bytes are copied in
CopyIn(buf, from, len, id) ==
    [i \in Bytes |-> IF i >= from /\ i < from + len THEN id ELSE buf[i]]


(***************************************************************************)
(* The records of the tape (tracing-tape/src/record) and the callbacks of  *)
(* the recorder that produce them.  Ids (callsite, field, span, thread)    *)
(* are the hashes the recorder computes; the model uses small numbers,     *)
(* never 0.  A record is modelled by its header (kind, len) and the fields *)
(* the parser reads; len is the record's length in bytes.                  *)
(***************************************************************************)
NCallsites == 2          \* callsites of the traced program
MaxFields == 2           \* fields of a callsite: 0..MaxFields
MaxSpans == 2            \* spans created while recording
MaxTs == 1               \* timestamps 0..MaxTs
MaxTape == 6             \* records on the tape
MaxPad == 8              \* zero bytes after the last record: 0 or MaxPad
MaxOther == 1            \* records of other versions of the format on a tape
MaxCut == 18             \* bytes cut off the last record: 1 or MaxCut
MaxRead == 4             \* records after those of the callsites, in ReadSpec
MaxSpanRecords == 6      \* records after those of the callsites, in EntranceSpec
MaxSkip == 3             \* records on a tape of SkipSpec
MaxCallsiteRecords == 5  \* records on a tape of CallsiteSpec
MaxEventRecords == 4     \* records after those of the callsites, in EventSpec

\* std::mem::size_of of the record structs (repr(C), unaligned)
SizeOfCallsiteRecord == 26
SizeOfCallsiteFieldRecord == 21
SizeOfEventRecord == 29
SizeOfEventValueRecord == 20
SizeOfSpanOpenRecord == 35
SizeOfSpanOpenRecord2 == 36
SizeOfSpanCloseRecord == 19
SizeOfSpanEnterRecord == 27
SizeOfSpanExitRecord == 19
SizeOfSpanValueRecord == 20
SizeOfSpanFollowsRecord == 19
SizeOfRecordHeader == 3
\* value.to_le_bytes() of an u64 value
ValueLen == 8

\* field_type: BOOL = 0 .. ERROR = 7; the recorded values are U64
FieldTypes == 0..7
FieldTypeU64 == 2
CallsiteIds == 1..NCallsites
SpanIds == 1..MaxSpans
Timestamps == 0..MaxTs
\* self.inner.random_state.hash_one(field.name()) of the j-th field
FieldId(j) == j
\* the value recorded for field j of the event whose EVENT record is the
\* i-th record of the tape
ValueOf(i, j) == i * (MaxFields + 1) + j

NoRecord == [kind |-> "NOOP", len |-> 1, thread_id |-> 0, callsite_id |-> 0,
             span_kind |-> FALSE, id |-> 0, parent_id |-> 0, count |-> 0,
             field_id |-> 0, type |-> 0, value |-> 0, timestamp |-> 0]
\* CallsiteRecord::new; the four strings are empty
CallsiteRecord(is_span, field_count, id) ==
    [NoRecord EXCEPT !.kind = "CALLSITE", !.len = SizeOfCallsiteRecord,
                     !.span_kind = is_span, !.count = field_count,
                     !.callsite_id = id]
\* CallsiteFieldRecord::new
CallsiteFieldRecord(callsite_id, field_id) ==
    [NoRecord EXCEPT !.kind = "CALLSITE_FIELD",
                     !.len = SizeOfCallsiteFieldRecord,
                     !.callsite_id = callsite_id, !.field_id = field_id]
\* EventRecord::new
EventRecord(value_count, timestamp, callsite_id, thread_id) ==
    [NoRecord EXCEPT !.kind = "EVENT", !.len = SizeOfEventRecord,
                     !.count = value_count, !.timestamp = timestamp,
                     !.callsite_id = callsite_id, !.thread_id = thread_id]
\* EventValueRecord::new, followed by the value's ValueLen bytes
EventValueRecord(field_id, value, thread_id) ==
    [NoRecord EXCEPT !.kind = "EVENT_VALUE",
                     !.len = SizeOfEventValueRecord + ValueLen,
                     !.field_id = field_id, !.type = FieldTypeU64,
                     !.value = value, !.thread_id = thread_id]
\* SpanOpenRecord2::new
SpanOpenRecord2(id, parent_id, callsite_id, timestamp) ==
    [NoRecord EXCEPT !.kind = "SPAN_OPEN", !.len = SizeOfSpanOpenRecord2,
                     !.id = id, !.parent_id = parent_id,
                     !.callsite_id = callsite_id, !.timestamp = timestamp]
\* SpanOpenRecord::new, the layout without the parent kind
SpanOpenRecord(id, parent_id, callsite_id, timestamp) ==
    [NoRecord EXCEPT !.kind = "SPAN_OPEN", !.len = SizeOfSpanOpenRecord,
                     !.id = id, !.parent_id = parent_id,
                     !.callsite_id = callsite_id, !.timestamp = timestamp]
\* SpanEnterRecord::new
SpanEnterRecord(id, timestamp, thread_id) ==
    [NoRecord EXCEPT !.kind = "SPAN_ENTER", !.len = SizeOfSpanEnterRecord,
                     !.id = id, !.timestamp = timestamp,
                     !.thread_id = thread_id]
\* SpanExitRecord::new
SpanExitRecord(id, timestamp) ==
    [NoRecord EXCEPT !.kind = "SPAN_EXIT", !.len = SizeOfSpanExitRecord,
                     !.id = id, !.timestamp = timestamp]
\* a SPAN_CLOSE record without its timestamp
SpanCloseRecord_ZeroTimestamp(id, timestamp) ==
    [NoRecord EXCEPT !.kind = "SPAN_CLOSE", !.len = SizeOfSpanCloseRecord,
                     !.id = id]
\* SpanCloseRecord::new
SpanCloseRecord(id, timestamp) ==
    [NoRecord EXCEPT !.kind = "SPAN_CLOSE", !.len = SizeOfSpanCloseRecord,
                     !.id = id, !.timestamp = timestamp]
\* SpanValueRecord::new, followed by the value's ValueLen bytes
SpanValueRecord(field_id, value, span_id) ==
    [NoRecord EXCEPT !.kind = "SPAN_VALUE",
                     !.len = SizeOfSpanValueRecord + ValueLen,
                     !.field_id = field_id, !.type = FieldTypeU64,
                     !.value = value, !.id = span_id]
\* SpanFollowsRecord::new
SpanFollowsRecord(span_id, follows_id) ==
    [NoRecord EXCEPT !.kind = "SPAN_FOLLOWS", !.len = SizeOfSpanFollowsRecord,
                     !.id = span_id, !.parent_id = follows_id]
\* a record of a kind this version of the format does not define: a header
\* with a correct len and len - 3 more bytes
OtherRecord(kind, len) == [NoRecord EXCEPT !.kind = kind, !.len = len]

\* the CALLSITE_FIELD records register_callsite writes after the CALLSITE
\* record, fields j..n
RECURSIVE FieldRecords(_, _, _)
FieldRecords(id, j, n) ==
    IF j > n THEN <<>>
    ELSE <<CallsiteFieldRecord(id, FieldId(j))>> \o FieldRecords(id, j + 1, n)
\* the EVENT_VALUE records event.record(&mut recorder) writes, fields j..n
RECURSIVE ValueRecords(_, _, _, _)
ValueRecords(i, thread_id, j, n) ==
    IF j > n THEN <<>>
    ELSE <<EventValueRecord(FieldId(j), ValueOf(i, j), thread_id)>>
         \o ValueRecords(i, thread_id, j + 1, n)
\* a sequence last to first
Reverse(s) == [k \in DOMAIN s |-> s[Len(s) + 1 - k]]

(***************************************************************************)
(* The length a record declares and the bytes a callback asks write for.   *)
(* These are computed with the sizes of the program: header.len is an u16, *)
(* the chapter is the 2^20 bytes of with_file.                             *)
(***************************************************************************)
MaxNear == 24            \* lengths up to MaxNear around 0, 2^16 and 2^18

\* let chapter_size: u32 = 1024 * 1024
RecorderChapterSize == 1048576
\* u16::MAX + 1
U16Range == 65536
\* n as u16
AsU16(n) == n % U16Range
\* write: size > self.chapter_size as usize >> 2, with with_file's chapter
RecordTooLarge(size) == size > RecorderChapterSize \div 4

\* the lengths of names and values the callbacks are called with
Lengths ==
    (0..MaxNear)
    \cup ((U16Range - MaxNear)..(U16Range + MaxNear))
    \cup ((RecorderChapterSize \div 4 - MaxNear)
             ..(RecorderChapterSize \div 4 + MaxNear))

(***************************************************************************)
(* The parser (tracing-tape-parser/src/lib.rs): the first pass            *)
(* (Intermediate) as one operator per record kind, each with the          *)
(* condition under which the code panics (unwrap of None, index by a      *)
(* missing key, assert), and the second pass TapeData::new.                *)
(***************************************************************************)
\* i64::MAX and i64::MIN, kept as the largest and smallest number of the
\* model's arithmetic
I64Max == 2147483647
I64Min == 0 - I64Max
Min(a, b) == IF a < b THEN a ELSE b
Max(a, b) == IF a > b THEN a ELSE b
\* HashMap::insert and HashMap::remove
Insert(map, key, val) == (key :> val) @@ map
Remove(map, key) == [k \in DOMAIN map \ {key} |-> map[k]]
EmptyMap == [k \in {} |-> 0]

\* Intermediate::default
IntermediateDefault ==
    [min_timestamp |-> I64Max, max_timestamp |-> I64Min,
     intermediate_callsites |-> EmptyMap, callsites |-> <<>>,
     intermediate_events |-> EmptyMap, events |-> <<>>,
     span_graph |-> <<>>, edges |-> <<>>, root_nodes |-> <<>>,
     opened_spans |-> EmptyMap, threads |-> {}]

\* T::ref_from_prefix(slice): None when the slice is shorter than T
RefFromPrefixFails(size, remaining) == remaining < size

\* Intermediate::callsite
callsite(im, r) ==
    [im EXCEPT !.intermediate_callsites =
        Insert(@, r.callsite_id,
               [id |-> r.callsite_id, span_kind |-> r.span_kind,
                capacity |-> r.count, fields |-> <<>>])]

\* Intermediate::callsite_field
callsite_field_panics(im, r) ==
    r.callsite_id \notin DOMAIN im.intermediate_callsites
callsite_field(im, r) ==
    LET c == im.intermediate_callsites[r.callsite_id]
        c2 == [c EXCEPT !.fields = Append(@, r.field_id)]
    IN  IF Len(c2.fields) = c2.capacity
        THEN [im EXCEPT !.intermediate_callsites = Remove(@, r.callsite_id),
                        !.callsites = Append(@, c2)]
        ELSE [im EXCEPT !.intermediate_callsites = Insert(@, r.callsite_id, c2)]

\* Intermediate::event; src is the position of the record on the tape
\* (history, not read by the parser)
event_panics(im, r) == r.thread_id \in DOMAIN im.intermediate_events
event(im, r, src) ==
    LET e == [timestamp |-> r.timestamp, callsite_id |-> r.callsite_id,
              capacity |-> r.count, values |-> <<>>, src |-> src]
        im2 == [im EXCEPT !.threads = @ \cup {r.thread_id},
                          !.min_timestamp = Min(@, r.timestamp),
                          !.max_timestamp = Max(@, r.timestamp)]
    IN  IF e.capacity = 0
        THEN [im2 EXCEPT !.events = Append(@, e)]
        ELSE [im2 EXCEPT !.intermediate_events = Insert(@, r.thread_id, e)]

\* Value::parse: panic!("unknown field type") for a kind outside field_type
value_parse_panics(type) == type \notin FieldTypes

\* Intermediate::event_value
event_value_panics(im, r) ==
    \/ value_parse_panics(r.type)
    \/ r.thread_id \notin DOMAIN im.intermediate_events
event_value(im, r) ==
    LET e == im.intermediate_events[r.thread_id]
        e2 == [e EXCEPT !.values =
                   Append(@, [value |-> r.value, field_id |-> r.field_id])]
    IN  IF Len(e2.values) = e2.capacity
        THEN [im EXCEPT !.intermediate_events = Remove(@, r.thread_id),
                        !.events = Append(@, e2)]
        ELSE [im EXCEPT !.intermediate_events = Insert(@, r.thread_id, e2)]

\* Intermediate::open_span; a node's index is its position in span_graph
open_span(im, r) ==
    LET span == [id |-> r.id, opened |-> r.timestamp, closed |-> 0,
                 entrances |-> <<>>, callsite_id |-> r.callsite_id,
                 parent_id |-> r.parent_id, values |-> EmptyMap]
    IN  [im EXCEPT !.min_timestamp = Min(@, r.timestamp),
                   !.max_timestamp = Max(@, r.timestamp),
                   !.span_graph = Append(@, span),
                   !.opened_spans = Insert(@, r.id, Len(im.span_graph) + 1)]

\* Intermediate::enter_span
enter_span_panics(im, r) == r.id \notin DOMAIN im.opened_spans
enter_span(im, r) ==
    [im EXCEPT !.span_graph[im.opened_spans[r.id]].entrances =
        Append(@, [entered |-> r.timestamp, exited |-> 0,
                   thread_id |-> r.thread_id])]

\* Intermediate::exit_span
exit_span_panics(im, r) ==
    \/ r.id \notin DOMAIN im.opened_spans
    \/ im.span_graph[im.opened_spans[r.id]].entrances = <<>>
exit_span(im, r) ==
    LET index == im.opened_spans[r.id]
        last == Len(im.span_graph[index].entrances)
    IN  [im EXCEPT !.span_graph[index].entrances[last].exited = r.timestamp]

\* Intermediate::close_span
close_span_panics(im, r) ==
    \/ r.id \notin DOMAIN im.opened_spans
    \/ LET span == im.span_graph[im.opened_spans[r.id]]
       IN  /\ span.parent_id # 0
           /\ span.parent_id \notin DOMAIN Remove(im.opened_spans, r.id)
close_span(im, r) ==
    LET span_index == im.opened_spans[r.id]
        opened == Remove(im.opened_spans, r.id)
        parent_id == im.span_graph[span_index].parent_id
        im2 == [im EXCEPT !.min_timestamp = Min(@, r.timestamp),
                          !.max_timestamp = Max(@, r.timestamp),
                          !.opened_spans = opened,
                          !.span_graph[span_index].closed = r.timestamp]
    IN  IF parent_id # 0
        THEN [im2 EXCEPT !.edges = Append(@, <<opened[parent_id], span_index>>)]
        ELSE [im2 EXCEPT !.root_nodes = Append(@, span_index)]

\* Intermediate::span_value
span_value_panics(im, r) ==
    \/ value_parse_panics(r.type)
    \/ r.id \notin DOMAIN im.opened_spans
span_value(im, r) ==
    [im EXCEPT !.span_graph[im.opened_spans[r.id]].values =
        Insert(@, r.field_id, r.value)]

\* TapeData::new, callsite_map: callsite id -> index of the last callsite
\* with this id (indices count from 0)
CallsiteMap(callsites) ==
    [id \in {callsites[i].id : i \in DOMAIN callsites} |->
        (CHOOSE i \in DOMAIN callsites :
            /\ callsites[i].id = id
            /\ \A j \in DOMAIN callsites : callsites[j].id = id => j <= i) - 1]
\* TapeData::new, callsite_field_map: (callsite id, field id) -> position
\* of the field, as left by the last insert
CallsiteFieldMap(callsites) ==
    [key \in UNION {{<<callsites[i].id, callsites[i].fields[j]>> :
                        j \in DOMAIN callsites[i].fields} :
                    i \in DOMAIN callsites} |->
        LET hits == UNION {{<<i, j>> :
                              j \in {k \in DOMAIN callsites[i].fields :
                                        callsites[i].fields[k] = key[2]}} :
                           i \in {x \in DOMAIN callsites :
                                     callsites[x].id = key[1]}}
            last == CHOOSE p \in hits : \A q \in hits :
                        q[1] < p[1] \/ (q[1] = p[1] /\ q[2] <= p[2])
        IN  last[2] - 1]

\* a sort that puts equal keys in the reverse of their order
Rank_TiesReversed(keys, i) ==
    Cardinality({j \in DOMAIN keys :
                    keys[j] < keys[i] \/ (keys[j] = keys[i] /\ j > i)}) + 1
\* a stable sort of s by the keys keys[i] of its elements
Rank(keys, i) ==
    Cardinality({j \in DOMAIN keys :
                    keys[j] < keys[i] \/ (keys[j] = keys[i] /\ j < i)}) + 1
SortByKey(s, keys) ==
    [r \in DOMAIN s |-> s[CHOOSE i \in DOMAIN s : Rank(keys, i) = r]]

\* the values left in the order they were in
SortValues_Unsorted(values, callsite_id, fm) == values
\* values.sort_by_cached_key(..): the key is computed only for two or more
\* values, and the lookup panics for a field the callsite does not have
SortValuesPanics(values, callsite_id, fm) ==
    /\ Len(values) >= 2
    /\ \E i \in DOMAIN values : <<callsite_id, values[i].field_id>> \notin DOMAIN fm
SortValues(values, callsite_id, fm) ==
    IF Len(values) < 2 THEN values
    ELSE SortByKey(values,
                   [i \in DOMAIN values |-> fm[<<callsite_id, values[i].field_id>>]])

\* TapeData::new, the conversion of one event
EventPanics(e, cm, fm) ==
    \/ SortValuesPanics(e.values, e.callsite_id, fm)
    \/ e.callsite_id \notin DOMAIN cm
Event(e, cm, fm) ==
    [timestamp |-> e.timestamp,
     callsite_index |-> cm[e.callsite_id],
     values |-> LET vs == SortValues(e.values, e.callsite_id, fm)
                IN  [i \in DOMAIN vs |-> vs[i].value],
     src |-> e.src]

\* intermediate_span.values.into_iter().collect::<Vec<_>>(): the entries of
\* the HashMap in the order the map iterates, which the program does not
\* control; rev chooses between the order of the field ids and its reverse
RECURSIVE Ascending(_)
Ascending(ids) ==
    IF ids = {} THEN <<>>
    ELSE LET m == CHOOSE x \in ids : \A y \in ids : x <= y
         IN  <<m>> \o Ascending(ids \ {m})
Entries(values, rev) ==
    LET ids == IF rev THEN Reverse(Ascending(DOMAIN values))
               ELSE Ascending(DOMAIN values)
    IN  [k \in DOMAIN ids |-> [value |-> values[ids[k]], field_id |-> ids[k]]]

\* intermediate_graph.neighbors(node): the targets of the node's edges, the
\* edge added last first
RECURSIVE Neighbors(_, _)
Neighbors(edges, node) ==
    IF edges = <<>> THEN <<>>
    ELSE Neighbors(Tail(edges), node)
         \o (IF Head(edges)[1] = node THEN <<Head(edges)[2]>> ELSE <<>>)

\* TapeData::new, the body shared by the loop over the root nodes
\* (new_parent = 0) and the loop over the children of a converted span:
\* remove the node, convert it, remember its children
ConvertSpan(im, cm, fm, rev, st, node, new_parent) ==
    IF ~st.ok THEN st
    ELSE IF \/ node \in st.removed
            \/ im.span_graph[node].callsite_id \notin DOMAIN cm
            \/ SortValuesPanics(Entries(im.span_graph[node].values, rev),
                                im.span_graph[node].callsite_id, fm)
    THEN [st EXCEPT !.ok = FALSE]
    ELSE LET s == im.span_graph[node]
             children == Neighbors(im.edges, node)
             vs == SortValues(Entries(s.values, rev), s.callsite_id, fm)
             span == [callsite_index |-> cm[s.callsite_id], opened |-> s.opened,
                      closed |-> s.closed, entrances |-> s.entrances,
                      values |-> [i \in DOMAIN vs |-> vs[i].value],
                      id |-> s.id]     \* id: history, not in Span
             span_node == Len(st.spans) + 1
         IN  [st EXCEPT
                !.removed = @ \cup {node},
                !.spans = Append(@, span),
                !.root_spans = IF new_parent = 0 THEN Append(@, span_node) ELSE @,
                !.span_edges = IF new_parent = 0 THEN @
                               ELSE Append(@, <<new_parent, span_node>>),
                !.nodes_to_process =
                    IF children = <<>> THEN @
                    ELSE Append(@, [old_children |-> children,
                                    new_parent |-> span_node])]
RECURSIVE ConvertSpans(_, _, _, _, _, _, _)
ConvertSpans(im, cm, fm, rev, st, nodes, new_parent) ==
    IF nodes = <<>> THEN st
    ELSE ConvertSpans(im, cm, fm, rev,
                      ConvertSpan(im, cm, fm, rev, st, Head(nodes), new_parent),
                      Tail(nodes), new_parent)
\* while let Some(mapping) = nodes_to_process.pop()
RECURSIVE ProcessNodes(_, _, _, _, _)
ProcessNodes(im, cm, fm, rev, st) ==
    IF ~st.ok \/ st.nodes_to_process = <<>> THEN st
    ELSE LET n == Len(st.nodes_to_process)
             mapping == st.nodes_to_process[n]
             popped == [st EXCEPT !.nodes_to_process = SubSeq(@, 1, n - 1)]
         IN  ProcessNodes(im, cm, fm, rev,
                          ConvertSpans(im, cm, fm, rev, popped,
                                       mapping.old_children, mapping.new_parent))

NoSpans == [ok |-> TRUE, removed |-> {}, spans |-> <<>>, root_spans |-> <<>>,
            span_edges |-> <<>>, nodes_to_process |-> <<>>]
NoTapeData == [ok |-> FALSE, min_timestamp |-> 0, max_timestamp |-> 0,
               callsites |-> <<>>, events |-> <<>>, spans |-> <<>>,
               span_edges |-> <<>>, root_spans |-> <<>>, threads |-> {}]
\* TapeData::new; ok = FALSE when it panics
TapeDataNew(im, rev) ==
    LET cm == CallsiteMap(im.callsites)
        fm == CallsiteFieldMap(im.callsites)
        sorted == SortByKey(im.events,
                            [i \in DOMAIN im.events |-> im.events[i].timestamp])
        st == ProcessNodes(im, cm, fm, rev,
                           ConvertSpans(im, cm, fm, rev, NoSpans, im.root_nodes, 0))
    IN  IF \E i \in DOMAIN sorted : EventPanics(sorted[i], cm, fm) THEN NoTapeData
        ELSE IF ~st.ok THEN NoTapeData
        ELSE [ok |-> TRUE,
              min_timestamp |-> im.min_timestamp,
              max_timestamp |-> im.max_timestamp,
              callsites |-> [i \in DOMAIN im.callsites |->
                                [span_kind |-> im.callsites[i].span_kind,
                                 fields |-> im.callsites[i].fields]],
              events |-> [i \in DOMAIN sorted |-> Event(sorted[i], cm, fm)],
              spans |-> st.spans, span_edges |-> st.span_edges,
              root_spans |-> st.root_spans, threads |-> im.threads]

VARIABLES
    offset,          \* TapeRecorderInner.offset
    chapter_index,   \* Chapter.chapter_index of both slots
    data_offset,     \* Chapter.data_offset of both slots
    bytes_written,   \* Chapter.bytes_written of both slots
    buffer,          \* the two chapter buffers
    file,            \* file offset of a chapter -> the bytes written at it
    pc,              \* where each thread is
    loc,             \* the locals of each thread's call
    calls,           \* accepted write calls so far
    writers,         \* number of threads that record
    placed           \* history: where each record was copied

wvars == <<offset, chapter_index, data_offset, bytes_written, buffer, file,
           pc, loc, calls, writers, placed>>

VARIABLES
    tape,            \* the records written so far, in the order of the tape
    todo,            \* the records each thread's running callback still writes
    last_ts,         \* the last elapsed_nanos() each thread has read
    registry,        \* the callsites of the program: registered or not
    span_state,      \* the spans of the program
    phase,           \* "recording", "parsing", "parsed" or "panicked"
    pad,             \* zero bytes that follow the records still to be parsed
    intro,           \* the Intro at the start of the file
    cut,             \* bytes of the last record that are missing from the file
    limit,           \* the recording is followed up to this many records
    pos,             \* the record the parser is at (data, as a position)
    im,              \* the parser's Intermediate
    data             \* the TapeData of the parsed tape

tvars == <<tape, todo, last_ts, registry, span_state, phase, pad, intro, cut,
           limit, pos, im, data>>

VARIABLES
    written,         \* the last record a callback handed to write
    head,            \* the bytes with_file has written at the start of the file
    statistics       \* the result of calculate_span_statistics

uvars == <<written, head, statistics>>
vars == <<wvars, tvars, uvars>>
filevars == <<pad, intro, cut, limit>>
parsevars == <<pos, im, data>>

\* MAGIC = *b"TAPEFILE", as bytes
Magic == <<84, 65, 80, 69, 70, 73, 76, 69>>
\* Intro::new(chapter_size, timestamp_base): MAGIC, VERSION, five bytes of
\* padding
IntroOf(chapter_size, timestamp_base) ==
    [magic |-> Magic, major |-> 0, minor |-> 0, chapter_size |-> chapter_size,
     padding |-> <<0, 0, 0, 0, 0>>, timestamp_base |-> timestamp_base]
\* the Intro of with_file when the clock reads 0
IntroNew == IntroOf(ChapterSizePot, 0)

\* little_endian::I128: the n bytes of x in two's complement, lowest first
\* (\div rounds down and % is never negative, so that -1 is n bytes 255)
RECURSIVE LeBytes(_, _)
LeBytes(x, n) ==
    IF n = 0 THEN <<>> ELSE <<x % 256>> \o LeBytes(x \div 256, n - 1)
\* the fields without the padding
AsBytes_NoPadding(i) ==
    i.magic \o <<i.major, i.minor, i.chapter_size>>
            \o LeBytes(i.timestamp_base, 16)
\* intro.as_bytes(): the fields of the repr(C) struct in their order
AsBytes(i) ==
    i.magic \o <<i.major, i.minor, i.chapter_size>> \o i.padding
            \o LeBytes(i.timestamp_base, 16)

\* no record has been handed to write
NoWrite == [kind |-> "NOOP", len |-> 0, size |-> 0, bytes |-> 0,
            outcome |-> "none"]
\* calculate_span_statistics has not been called
NoStatistics == [outcome |-> "none"]
NoCallsite == [state |-> "none", span_kind |-> FALSE, fields |-> 0]
NoSpan == [state |-> "none", parent |-> 0, ts |-> 0, entered |-> {},
           callsite |-> 0]
\* the callsites in reg have been registered, their records are on the
\* tape, and Tape::parse has not been called
TapeStartAt(records, reg, lim) ==
    /\ tape = records
    /\ todo = [t \in Threads |-> <<>>]
    /\ last_ts = [t \in Threads |-> 0]
    /\ registry = reg
    /\ limit = lim
    /\ span_state = [s \in SpanIds |-> NoSpan]
    /\ phase = "recording"
    /\ pad = 0
    /\ intro = IntroNew
    /\ cut = 0
    /\ pos = 1
    /\ im = IntermediateDefault
    /\ data = NoTapeData
    /\ written = NoWrite
    /\ head = AsBytes(IntroNew)
    /\ statistics = NoStatistics
\* nothing has been recorded
TapeStart == TapeStartAt(<<>>, [c \in CallsiteIds |-> NoCallsite], MaxTape)

NoLoc == [id |-> 0, size |-> 0, data_start |-> 0, first |-> 0, end_offset |-> 0,
          expected |-> 0, slot |-> 0, ret |-> "none"]

\* The id carried by the one-byte record the starting thread wrote at
\* offset g before the writer threads began.
PreId(g) == MaxCallsCopy + 1 + g
PrePlaced(p) == {[id |-> PreId(g), thread |-> 0, n |-> g + 1, start |-> g,
                  size |-> 1, first |-> g] : g \in 0..(p - 1)}
\* The content of chapter k once offsets 0..p-1 hold one-byte records; g is
\* what the allocator left in the buffer.
PreChapter(k, p, g) ==
    [i \in Bytes |-> IF k * ChapterSize + i < p THEN PreId(k * ChapterSize + i)
                     ELSE IF k >= 2 THEN PreId((k - 2) * ChapterSize + i)
                     ELSE g]

\* Chapter::new and TapeRecorder::with_file (p = 0), and the state the
\* recorder is in after the thread that built it has made p one-byte writes
\* on its own: chapters below p's are flushed and their slots handed on.
WStart(p, g) ==
    LET k == ChapterIndex(p)
        cur(s) == IF SlotOf(k) = s THEN k ELSE k + 1
    IN  /\ offset = p
        /\ chapter_index = [s \in Slots |-> cur(s)]
        /\ data_offset = [s \in Slots |->
                            IF cur(s) = k \/ cur(s) = 1 THEN 0 ELSE Sentinel]
        /\ bytes_written = [s \in Slots |->
                              IF cur(s) = k THEN InChapter(p) ELSE 0]
        /\ buffer = [s \in Slots |->
                       IF cur(s) = k THEN PreChapter(k, p, g)
                       ELSE IF k >= 1 THEN PreChapter(k - 1, p, g)
                       ELSE [i \in Bytes |-> g]]
        /\ file = [o \in {FileOffset(c) : c \in 0..(k - 1)} |->
                        PreChapter((o - IntroSize) \div ChapterSize, p, g)]
        /\ pc = [q \in Procs |-> IF q = Dropper THEN "live" ELSE "idle"]
        /\ loc = [q \in Procs |-> NoLoc]
        /\ calls = 0
        /\ placed = PrePlaced(p)

WInit ==
    /\ \E p \in 0..MaxPrefix, g \in {0, Junk} : WStart(p, g)
    /\ writers \in Threads
    /\ TapeStart

\* write: the size check fails, panic!("record too large")
Reject(t, sz) ==
    /\ pc[t] = "idle" /\ pc[Dropper] = "live"
    /\ t <= writers /\ calls < MaxCalls
    /\ TooLarge(sz)
    /\ pc' = [pc EXCEPT ![t] = "panicked"]
    /\ loc' = [loc EXCEPT ![t] = [NoLoc EXCEPT !.size = sz]]
    /\ UNCHANGED <<offset, chapter_index, data_offset, bytes_written, buffer,
                   file, calls, writers, placed>>

\* write: the size check passes and the range is reserved (fetch_add)
ReserveRange(t, sz) ==
    /\ pc[t] = "idle" /\ pc[Dropper] = "live"
    /\ t <= writers
    /\ ~TooLarge(sz)
    /\ offset' = FetchAdd(offset, sz)
    /\ loc' = [loc EXCEPT ![t] = [NoLoc EXCEPT !.id = RecId(calls + 1),
                                   !.size = sz, !.data_start = offset,
                                   !.first = offset]]
    /\ calls' = calls + 1
    /\ pc' = [pc EXCEPT ![t] = "slot"]
    /\ UNCHANGED <<chapter_index, data_offset, bytes_written, buffer, file,
                   writers, placed>>

\* one of the MaxCalls write calls the threads make
Reserve(t, sz) == calls < MaxCalls /\ ReserveRange(t, sz)

\* self.write(size, f) at the end of the straddle branch: reserve again
Retry(t) ==
    /\ pc[t] = "retry"
    /\ offset' = FetchAdd(offset, loc[t].size)
    /\ loc' = [loc EXCEPT ![t].data_start = offset]
    /\ pc' = [pc EXCEPT ![t] = "slot"]
    /\ UNCHANGED <<chapter_index, data_offset, bytes_written, buffer, file,
                   calls, writers, placed>>

\* self.chapter(data_start_chapter): spin until the slot holds the chapter,
\* then branch on data_start_chapter == data_end_chapter
SlotReady(t) ==
    LET k == ChapterIndex(loc[t].data_start)
        s == SlotOf(k)
    IN  /\ pc[t] = "slot"
        /\ HoldsChapter(chapter_index[s], k)
        /\ IF SameChapter(loc[t].data_start, loc[t].size)
           THEN /\ pc' = [pc EXCEPT ![t] = "copy"]
                /\ loc' = [loc EXCEPT ![t].slot = s]
           ELSE /\ pc' = [pc EXCEPT ![t] = "fin_fill"]
                /\ loc' = [loc EXCEPT ![t].slot = s,
                                      ![t].end_offset = InChapter(loc[t].data_start),
                                      ![t].ret = "straddle"]
        /\ UNCHANGED <<offset, chapter_index, data_offset, bytes_written,
                       buffer, file, calls, writers, placed>>

\* f(chapter.byte_range_mut(chapter_offset, size))
Copy(t) ==
    LET s == loc[t].slot
        id == loc[t].id
    IN  /\ pc[t] = "copy"
        /\ buffer' = [buffer EXCEPT ![s] =
                        CopyIn(@, InChapter(loc[t].data_start), loc[t].size, id)]
        /\ placed' = placed \cup {[id |-> id, thread |-> t, n |-> id,
                                   start |-> loc[t].data_start,
                                   size |-> loc[t].size,
                                   first |-> loc[t].first]}
        /\ pc' = [pc EXCEPT ![t] = "publish"]
        /\ UNCHANGED <<offset, chapter_index, data_offset, bytes_written,
                       file, loc, calls, writers>>

\* chapter.bytes_written.fetch_add(size, Release), then the test
\* data_end & chapter_offset_mask == 0
Publish(t) ==
    LET s == loc[t].slot
        data_end == loc[t].data_start + loc[t].size
    IN  /\ pc[t] = "publish"
        /\ bytes_written' = [bytes_written EXCEPT ![s] = @ + loc[t].size]
        /\ IF InChapter(data_end) = 0
           THEN /\ pc' = [pc EXCEPT ![t] = "fin_fill"]
                /\ loc' = [loc EXCEPT ![t].end_offset = ChapterSize,
                                      ![t].ret = "aligned"]
           ELSE /\ pc' = [pc EXCEPT ![t] = "idle"]
                /\ loc' = [loc EXCEPT ![t] = NoLoc]
        /\ UNCHANGED <<offset, chapter_index, data_offset, buffer, file,
                       calls, writers, placed>>

\* Chapter::finish, first part: zero the tail, load data_offset
FinishFill(p) ==
    LET s == loc[p].slot
        end == loc[p].end_offset
    IN  /\ pc[p] = "fin_fill"
        /\ buffer' = [buffer EXCEPT ![s] = FillZero(@, end, ChapterSize - end)]
        /\ loc' = [loc EXCEPT ![p].expected = Expected(end, data_offset[s])]
        /\ pc' = [pc EXCEPT ![p] = "fin_wait"]
        /\ UNCHANGED <<offset, chapter_index, data_offset, bytes_written,
                       file, calls, writers, placed>>

\* Chapter::finish, the loop on bytes_written and file.write_all_at
FinishWrite(p) ==
    LET s == loc[p].slot
    IN  /\ pc[p] = "fin_wait"
        /\ Written(bytes_written[s], loc[p].expected)
        /\ file' = (FileOffset(chapter_index[s]) :> buffer[s]) @@ file
        /\ pc' = [pc EXCEPT ![p] = "fin_reset"]
        /\ UNCHANGED <<offset, chapter_index, data_offset, bytes_written,
                       buffer, loc, calls, writers, placed>>

\* Chapter::finish, the three stores that hand the slot to chapter + 2
FinishReset(p) ==
    LET s == loc[p].slot
    IN  /\ pc[p] = "fin_reset"
        /\ bytes_written' = [bytes_written EXCEPT ![s] = 0]
        /\ data_offset' = [data_offset EXCEPT ![s] = Sentinel]
        /\ chapter_index' = [chapter_index EXCEPT ![s] = NextChapterIndex(@)]
        /\ IF loc[p].ret = "drop"
           THEN /\ pc' = [pc EXCEPT ![p] = "dropped"]
                /\ loc' = [loc EXCEPT ![p] = NoLoc]
           ELSE /\ pc' = [pc EXCEPT ![p] = "next_slot"]
                /\ loc' = loc
        /\ UNCHANGED <<offset, buffer, file, calls, writers, placed>>

\* self.chapter(data_start_chapter + 1) after finish
NextSlotReady(t) ==
    LET k == ChapterIndex(loc[t].data_start) + 1
    IN  /\ pc[t] = "next_slot"
        /\ HoldsChapter(chapter_index[SlotOf(k)], k)
        /\ pc' = [pc EXCEPT ![t] = "next_store"]
        /\ UNCHANGED <<offset, chapter_index, data_offset, bytes_written,
                       buffer, file, loc, calls, writers, placed>>

\* next_chapter.data_offset.store(..)
NextStore(t) ==
    LET s == SlotOf(ChapterIndex(loc[t].data_start) + 1)
        data_end == loc[t].data_start + loc[t].size
    IN  /\ pc[t] = "next_store"
        /\ IF loc[t].ret = "aligned"
           THEN /\ data_offset' = [data_offset EXCEPT ![s] = 0]
                /\ pc' = [pc EXCEPT ![t] = "idle"]
                /\ loc' = [loc EXCEPT ![t] = NoLoc]
           ELSE /\ data_offset' = [data_offset EXCEPT ![s] =
                                       NextChapterOffset(data_end)]
                /\ pc' = [pc EXCEPT ![t] = "next_fill"]
                /\ loc' = loc
        /\ UNCHANGED <<offset, chapter_index, bytes_written, buffer, file,
                       calls, writers, placed>>

\* next_chapter.byte_range_mut(0, next_chapter_offset).fill(0)
NextFill(t) ==
    LET s == SlotOf(ChapterIndex(loc[t].data_start) + 1)
        data_end == loc[t].data_start + loc[t].size
    IN  /\ pc[t] = "next_fill"
        /\ buffer' = [buffer EXCEPT ![s] =
                        FillZero(@, 0, NextChapterOffset(data_end))]
        /\ pc' = [pc EXCEPT ![t] = "retry"]
        /\ UNCHANGED <<offset, chapter_index, data_offset, bytes_written,
                       file, loc, calls, writers, placed>>

\* Drop for TapeRecorderInner: runs once no thread holds the recorder
DropLoad ==
    /\ pc[Dropper] = "live"
    /\ \A t \in Threads : pc[t] \in {"idle", "panicked"}
    /\ loc' = [loc EXCEPT ![Dropper] = [NoLoc EXCEPT !.data_start = offset,
                                         !.end_offset = InChapter(offset),
                                         !.ret = "drop"]]
    /\ pc' = [pc EXCEPT ![Dropper] = "drop_slot"]
    /\ UNCHANGED <<offset, chapter_index, data_offset, bytes_written, buffer,
                   file, calls, writers, placed>>

\* Drop: self.chapter(chapter_index), then chapter.finish(..)
DropSlotReady ==
    LET k == ChapterIndex(loc[Dropper].data_start)
    IN  /\ pc[Dropper] = "drop_slot"
        /\ HoldsChapter(chapter_index[SlotOf(k)], k)
        /\ loc' = [loc EXCEPT ![Dropper].slot = SlotOf(k)]
        /\ pc' = [pc EXCEPT ![Dropper] = "fin_fill"]
        /\ UNCHANGED <<offset, chapter_index, data_offset, bytes_written,
                       buffer, file, calls, writers, placed>>

\* the steps of one thread that is inside write, finish or drop
Step(p) ==
    \/ p \in Threads /\ (Retry(p) \/ SlotReady(p) \/ Copy(p) \/ Publish(p)
                         \/ NextSlotReady(p) \/ NextStore(p) \/ NextFill(p))
    \/ FinishFill(p) \/ FinishWrite(p) \/ FinishReset(p)
    \/ p = Dropper /\ DropSlotReady

WNext ==
    \/ \E t \in Threads, sz \in 1..MaxSize : Reject(t, sz)
    \/ \E t \in Threads, sz \in 1..MaxSize : Reserve(t, sz)
    \/ \E t \in Threads : Retry(t)
    \/ \E t \in Threads : SlotReady(t)
    \/ \E t \in Threads : Copy(t)
    \/ \E t \in Threads : Publish(t)
    \/ \E p \in Procs : FinishFill(p)
    \/ \E p \in Procs : FinishWrite(p)
    \/ \E p \in Procs : FinishReset(p)
    \/ \E t \in Threads : NextSlotReady(t)
    \/ \E t \in Threads : NextStore(t)
    \/ \E t \in Threads : NextFill(t)
    \/ DropLoad
    \/ DropSlotReady

Spec == WInit /\ [][WNext /\ UNCHANGED <<tvars, uvars>>]_vars

(***************************************************************************)
(* Recording: the callbacks of the Layer implementation.  Every record is  *)
(* one call of write, so the records of the threads' callbacks interleave  *)
(* on the tape record by record.  The guards are the order in which the    *)
(* tracing dispatcher calls a layer: a callsite is registered once, before *)
(* its events and spans; a span is entered, exited and closed only while   *)
(* it is alive, exited by a thread that entered it, and closed after the   *)
(* spans that name it as their parent.  A thread's timestamps never        *)
(* decrease; those of different threads are in no relation to the order    *)
(* of their records.                                                       *)
(***************************************************************************)
\* the bytes a record takes in the file: header.len of them, and the
\* RecordHeader itself when header.len is smaller
BytesOf(r) == IF r.len < SizeOfRecordHeader THEN SizeOfRecordHeader ELSE r.len
RECURSIVE BytesFrom(_, _)
BytesFrom(records, from) ==
    IF from > Len(records) THEN 0
    ELSE BytesOf(records[from]) + BytesFrom(records, from + 1)

\* the kinds of record_kind that Intermediate::parse handles, and two it
\* skips: THREAD_NAME, which no callback writes, and a kind (0x7F) that
\* record_kind does not have
HandledKinds == {"NOOP", "CALLSITE", "CALLSITE_FIELD", "SPAN_OPEN", "SPAN_ENTER",
                 "SPAN_EXIT", "SPAN_CLOSE", "SPAN_VALUE", "EVENT", "EVENT_VALUE"}
OtherKinds == {"THREAD_NAME", "UNKNOWN"}
\* a value kind that field_type does not have
OtherFieldType == 8
\* Intros that Intro::new does not produce: another magic, another major,
\* another minor
OtherIntros == {[IntroNew EXCEPT !.magic = <<79, 84, 72, 69, 82, 70, 73, 76>>],
                [IntroNew EXCEPT !.major = 1],
                [IntroNew EXCEPT !.minor = 1]}
\* the records on the tape that this recorder does not write
Others ==
    Cardinality({i \in DOMAIN tape : \/ tape[i].kind \in OtherKinds
                                     \/ tape[i].type \notin FieldTypes})

Recording(t) ==
    /\ t <= writers
    /\ phase = "recording" /\ todo[t] = <<>> /\ Len(tape) < limit

\* register_callsite: the CALLSITE record; the field records follow
RegisterCallsite(t, c, is_span, n) ==
    /\ Recording(t)
    /\ registry[c].state = "none"
    /\ \A b \in CallsiteIds : b < c => registry[b].state # "none"
    /\ tape' = Append(tape, CallsiteRecord(is_span, n, c))
    /\ todo' = [todo EXCEPT ![t] = FieldRecords(c, 1, n)]
    /\ registry' = [registry EXCEPT ![c] =
                       [state |-> IF n = 0 THEN "done" ELSE "busy",
                        span_kind |-> is_span, fields |-> n]]
    /\ UNCHANGED <<last_ts, span_state, phase, filevars, parsevars, wvars, uvars>>

\* register_callsite is called again for a callsite (the interest cache is
\* rebuilt, or a second thread reaches the callsite while the first call
\* runs): the same CALLSITE record; the field records follow
RegisterCallsiteAgain(t, c) ==
    /\ Recording(t)
    /\ registry[c].state # "none"
    /\ tape' = Append(tape, CallsiteRecord(registry[c].span_kind,
                                           registry[c].fields, c))
    /\ todo' = [todo EXCEPT ![t] = FieldRecords(c, 1, registry[c].fields)]
    /\ UNCHANGED <<registry, last_ts, span_state, phase, filevars, parsevars,
                   wvars, uvars>>

\* the next write of a running register_callsite or on_event
WriteRecord(t) ==
    /\ t <= writers
    /\ phase = "recording" /\ todo[t] # <<>> /\ Len(tape) < limit
    /\ tape' = Append(tape, Head(todo[t]))
    /\ todo' = [todo EXCEPT ![t] = Tail(@)]
    /\ registry' = IF Head(todo[t]).kind = "CALLSITE_FIELD" /\ Len(todo[t]) = 1
                   THEN [registry EXCEPT ![Head(todo[t]).callsite_id].state = "done"]
                   ELSE registry
    /\ UNCHANGED <<last_ts, span_state, phase, filevars, parsevars, wvars, uvars>>

\* on_event: the EVENT record; the value records in values follow
WriteEvent(t, c, ts, values) ==
    /\ Recording(t)
    /\ registry[c].state = "done" /\ ~registry[c].span_kind
    /\ ts >= last_ts[t]
    /\ tape' = Append(tape, EventRecord(registry[c].fields, ts, c, t))
    /\ todo' = [todo EXCEPT ![t] = values]
    /\ last_ts' = [last_ts EXCEPT ![t] = ts]
    /\ UNCHANGED <<registry, span_state, phase, filevars, parsevars, wvars, uvars>>

\* on_event of an event whose value set lists the fields in their order
OnEvent(t, c, ts) ==
    WriteEvent(t, c, ts, ValueRecords(Len(tape) + 1, t, 1, registry[c].fields))

\* on_event of an event whose value set lists the fields last to first
OnEventReversed(t, c, ts) ==
    /\ registry[c].fields >= 2
    /\ WriteEvent(t, c, ts,
                  Reverse(ValueRecords(Len(tape) + 1, t, 1, registry[c].fields)))

\* on_event of an event whose value set gives a value to the first n fields
\* only and leaves the others tracing::field::Empty: event.record visits
\* the fields that have a value
OnEventWithEmpty(t, c, ts, n) ==
    /\ n < registry[c].fields
    /\ WriteEvent(t, c, ts, ValueRecords(Len(tape) + 1, t, 1, n))

\* a span is created: the SPAN_OPEN record; the span's fields, if any, have
\* no value yet
NewSpan(t, c, id, parent, ts, record) ==
    /\ Recording(t)
    /\ registry[c].state = "done" /\ registry[c].span_kind
    /\ span_state[id].state = "none"
    /\ \A s \in SpanIds : s < id => span_state[s].state # "none"
    /\ parent = 0 \/ (parent \in SpanIds /\ span_state[parent].state = "open"
                      /\ ts >= span_state[parent].ts)
    /\ ts >= last_ts[t]
    /\ tape' = Append(tape, record)
    /\ span_state' = [span_state EXCEPT ![id] =
                         [state |-> "open", parent |-> parent, ts |-> ts,
                          entered |-> {}, callsite |-> c]]
    /\ last_ts' = [last_ts EXCEPT ![t] = ts]
    /\ UNCHANGED <<todo, registry, phase, filevars, parsevars, wvars, uvars>>

\* on_new_span, with an explicit parent (parent # 0) or without
OnNewSpan(t, c, id, parent, ts) ==
    NewSpan(t, c, id, parent, ts, SpanOpenRecord2(id, parent, c, ts))

\* the same callback of a recorder that writes SpanOpenRecord
OnNewSpanLegacy(t, c, id, parent, ts) ==
    NewSpan(t, c, id, parent, ts, SpanOpenRecord(id, parent, c, ts))

\* on_record: one value of type for field j of the span
OnRecord(t, id, j, type) ==
    /\ Recording(t)
    /\ span_state[id].state = "open"
    /\ j \in 1..registry[span_state[id].callsite].fields
    /\ type \in FieldTypes \/ Others < MaxOther
    /\ tape' = Append(tape, [SpanValueRecord(FieldId(j),
                                             ValueOf(Len(tape) + 1, j), id)
                                EXCEPT !.type = type])
    /\ UNCHANGED <<todo, last_ts, registry, span_state, phase, filevars,
                   parsevars, wvars, uvars>>

\* on_follows_from
OnFollowsFrom(t, id, follows) ==
    /\ Recording(t)
    /\ id # follows
    /\ span_state[id].state = "open" /\ span_state[follows].state = "open"
    /\ tape' = Append(tape, SpanFollowsRecord(id, follows))
    /\ UNCHANGED <<todo, last_ts, registry, span_state, phase, filevars,
                   parsevars, wvars, uvars>>

\* a record of a kind that this recorder never writes, of len bytes
OtherWritten(t, kind, len) ==
    /\ Recording(t)
    /\ tape' = Append(tape, OtherRecord(kind, len))
    /\ UNCHANGED <<todo, last_ts, registry, span_state, phase, filevars,
                   parsevars, wvars, uvars>>
WriteOther(t, kind, len) == Others < MaxOther /\ OtherWritten(t, kind, len)

\* on_enter
OnEnter(t, id, ts) ==
    /\ Recording(t)
    /\ span_state[id].state = "open" /\ t \notin span_state[id].entered
    /\ ts >= last_ts[t] /\ ts >= span_state[id].ts
    /\ tape' = Append(tape, SpanEnterRecord(id, ts, t))
    /\ span_state' = [span_state EXCEPT ![id].entered = @ \cup {t},
                                        ![id].ts = ts]
    /\ last_ts' = [last_ts EXCEPT ![t] = ts]
    /\ UNCHANGED <<todo, registry, phase, filevars, parsevars, wvars, uvars>>

\* on_exit
OnExit(t, id, ts) ==
    /\ Recording(t)
    /\ span_state[id].state = "open" /\ t \in span_state[id].entered
    /\ ts >= last_ts[t] /\ ts >= span_state[id].ts
    /\ tape' = Append(tape, SpanExitRecord(id, ts))
    /\ span_state' = [span_state EXCEPT ![id].entered = @ \ {t},
                                        ![id].ts = ts]
    /\ last_ts' = [last_ts EXCEPT ![t] = ts]
    /\ UNCHANGED <<todo, registry, phase, filevars, parsevars, wvars, uvars>>

\* on_close: the span has been exited and no span that names it as its
\* parent is alive
OnClose(t, id, ts) ==
    /\ Recording(t)
    /\ span_state[id].state = "open" /\ span_state[id].entered = {}
    /\ \A s \in SpanIds : ~(span_state[s].state = "open" /\ span_state[s].parent = id)
    /\ ts >= last_ts[t] /\ ts >= span_state[id].ts
    /\ tape' = Append(tape, SpanCloseRecord(id, ts))
    /\ span_state' = [span_state EXCEPT ![id].state = "closed", ![id].ts = ts]
    /\ last_ts' = [last_ts EXCEPT ![t] = ts]
    /\ UNCHANGED <<todo, registry, phase, filevars, parsevars, wvars, uvars>>

\* recording stops (the recorder is dropped or the process is killed); the
\* file ends with the last chapter's zero bytes, and Tape::parse is called:
\* it reads the Intro and starts the loop
Stop(zeros) ==
    /\ phase = "recording"
    /\ ~RefFromPrefixFails(IntroSize, IntroSize + BytesFrom(tape, 1) + zeros)
    /\ phase' = "parsing"
    /\ pad' = zeros
    /\ UNCHANGED <<tape, todo, last_ts, registry, span_state, intro, cut,
                   limit, parsevars, wvars, uvars>>

\* Tape::parse is called on a copy of the file that ends n bytes before the
\* end of the last record
StopCut(n) ==
    /\ phase = "recording"
    /\ tape # <<>>
    /\ n < tape[Len(tape)].len
    /\ ~RefFromPrefixFails(IntroSize, IntroSize + BytesFrom(tape, 1) - n)
    /\ phase' = "parsing"
    /\ cut' = n
    /\ UNCHANGED <<tape, todo, last_ts, registry, span_state, pad, intro,
                   limit, parsevars, wvars, uvars>>

\* Tape::parse is called on a file with the Intro i, written by another
\* program or another version of the recorder
StopOther(i) ==
    /\ phase = "recording"
    /\ ~RefFromPrefixFails(IntroSize, IntroSize + BytesFrom(tape, 1))
    /\ phase' = "parsing"
    /\ intro' = i
    /\ UNCHANGED <<tape, todo, last_ts, registry, span_state, pad, cut,
                   limit, parsevars, wvars, uvars>>

(***************************************************************************)
(* Tape::parse: one step per iteration of the loop of Intermediate::parse, *)
(* then TapeData::new.                                                     *)
(***************************************************************************)
\* data.len(): the bytes from the record at pos to the end of the file
Remaining == BytesFrom(tape, pos) + pad - cut
AtRecord(kind) ==
    phase = "parsing" /\ pos \in DOMAIN tape /\ tape[pos].kind = kind
\* &slice[n..]: panics when the slice has fewer than n bytes
SliceFails(n, remaining) == n > remaining
\* the record that starts n bytes after the start of the record at p: the
\* next record when n is the length of the record at p, the record at p
\* itself when n = 0 (&slice[0..] is the slice), no record (0) otherwise
After(p, n) ==
    IF n = BytesOf(tape[p]) THEN p + 1 ELSE IF n = 0 THEN p ELSE 0
\* header.len.get() as usize, the number of bytes a handler skips
HeaderLen(r) == r.len
\* a default arm that skips the header only
SkippedLen_HeaderOnly(r) == SizeOfRecordHeader
\* the bytes the default arm skips: header.len.get() as usize
SkippedLen(r) == r.len
\* an open_span that skips the size of the struct it has read
SpanOpenLen_SizeOfRecord(r) == SizeOfSpanOpenRecord
\* the bytes open_span skips: span_record.header.len.get() as usize
SpanOpenLen(r) == r.len

\* one arm of the match: the record is read as a struct of size bytes, then
\* the rest of the slice after len bytes is returned
Handle(size, panics, next, len) ==
    /\ LET remaining == Remaining
       IN  IF \/ RefFromPrefixFails(size, remaining)
              \/ panics
              \/ SliceFails(len, remaining)
           THEN phase' = "panicked" /\ UNCHANGED <<im, pos>>
           ELSE im' = next /\ pos' = After(pos, len) /\ UNCHANGED phase
    /\ UNCHANGED <<tape, todo, last_ts, registry, span_state, filevars, data,
                   wvars, uvars>>

\* record_kind::NOOP => data = &data[1..], once for every zero byte that
\* follows the last record
ParseNoop ==
    /\ phase = "parsing" /\ pos > Len(tape) /\ pad > 0
    /\ pad' = 0
    /\ UNCHANGED <<tape, todo, last_ts, registry, span_state, phase, intro,
                   cut, limit, parsevars, wvars, uvars>>

ParseCallsite ==
    /\ AtRecord("CALLSITE")
    /\ Handle(SizeOfCallsiteRecord, FALSE, callsite(im, tape[pos]),
              HeaderLen(tape[pos]))

ParseCallsiteField ==
    /\ AtRecord("CALLSITE_FIELD")
    /\ Handle(SizeOfCallsiteFieldRecord, callsite_field_panics(im, tape[pos]),
              callsite_field(im, tape[pos]), HeaderLen(tape[pos]))

ParseEvent ==
    /\ AtRecord("EVENT")
    /\ Handle(SizeOfEventRecord, event_panics(im, tape[pos]),
              event(im, tape[pos], pos), HeaderLen(tape[pos]))

ParseEventValue ==
    /\ AtRecord("EVENT_VALUE")
    /\ Handle(SizeOfEventValueRecord, event_value_panics(im, tape[pos]),
              event_value(im, tape[pos]), HeaderLen(tape[pos]))

\* open_span reads the record as a SpanOpenRecord
ParseOpenSpan ==
    /\ AtRecord("SPAN_OPEN")
    /\ Handle(SizeOfSpanOpenRecord, FALSE, open_span(im, tape[pos]),
              SpanOpenLen(tape[pos]))

ParseEnterSpan ==
    /\ AtRecord("SPAN_ENTER")
    /\ Handle(SizeOfSpanEnterRecord, enter_span_panics(im, tape[pos]),
              enter_span(im, tape[pos]), HeaderLen(tape[pos]))

\* exit_span reads the record as a SpanEnterRecord
ParseExitSpan ==
    /\ AtRecord("SPAN_EXIT")
    /\ Handle(SizeOfSpanEnterRecord, exit_span_panics(im, tape[pos]),
              exit_span(im, tape[pos]), HeaderLen(tape[pos]))

ParseCloseSpan ==
    /\ AtRecord("SPAN_CLOSE")
    /\ Handle(SizeOfSpanCloseRecord, close_span_panics(im, tape[pos]),
              close_span(im, tape[pos]), HeaderLen(tape[pos]))

ParseSpanValue ==
    /\ AtRecord("SPAN_VALUE")
    /\ Handle(SizeOfSpanValueRecord, span_value_panics(im, tape[pos]),
              span_value(im, tape[pos]), HeaderLen(tape[pos]))

\* the default branch of the match: the record is skipped
ParseOther ==
    /\ phase = "parsing" /\ pos \in DOMAIN tape
    /\ tape[pos].kind \notin HandledKinds
    /\ Handle(SizeOfRecordHeader, FALSE, im, SkippedLen(tape[pos]))

\* Tape::time_range: base + min_timestamp as i128 ..= base + max_timestamp
\* as i128
time_range ==
    [start |-> intro.timestamp_base + data.min_timestamp,
     end |-> intro.timestamp_base + data.max_timestamp]

\* the orders in which the span values can be iterated: a map of fewer than
\* two entries has one
IterationOrders(i) ==
    IF \E n \in DOMAIN i.span_graph :
           Cardinality(DOMAIN i.span_graph[n].values) >= 2
    THEN BOOLEAN ELSE {FALSE}

\* the loop has ended (data.is_empty()): TapeData::new(intermediate)
Finish ==
    /\ phase = "parsing" /\ pos > Len(tape) /\ pad = 0
    /\ \E rev \in IterationOrders(im) : data' = TapeDataNew(im, rev)
    /\ phase' = IF data'.ok THEN "parsed" ELSE "panicked"
    /\ UNCHANGED <<tape, todo, last_ts, registry, span_state, filevars, pos, im,
                   wvars, uvars>>

\* the tapes that NThreads threads record with this recorder
TInit == WStart(0, 0) /\ writers = NThreads /\ TapeStart

TNext ==
    \/ \E t \in Threads, c \in CallsiteIds, is_span \in BOOLEAN,
          n \in 0..MaxFields : RegisterCallsite(t, c, is_span, n)
    \/ \E t \in Threads : WriteRecord(t)
    \/ \E t \in Threads, c \in CallsiteIds, ts \in Timestamps : OnEvent(t, c, ts)
    \/ \E t \in Threads, c \in CallsiteIds, id \in SpanIds,
          parent \in {0} \cup SpanIds, ts \in Timestamps :
              OnNewSpan(t, c, id, parent, ts)
    \/ \E t \in Threads, id \in SpanIds, ts \in Timestamps : OnEnter(t, id, ts)
    \/ \E t \in Threads, id \in SpanIds, ts \in Timestamps : OnExit(t, id, ts)
    \/ \E t \in Threads, id \in SpanIds, ts \in Timestamps : OnClose(t, id, ts)
    \/ \E zeros \in {0, MaxPad} : Stop(zeros)
    \/ ParseNoop
    \/ ParseCallsite
    \/ ParseCallsiteField
    \/ ParseEvent
    \/ ParseEventValue
    \/ ParseOpenSpan
    \/ ParseEnterSpan
    \/ ParseExitSpan
    \/ ParseCloseSpan
    \/ Finish

TapeSpec == TInit /\ [][TNext]_vars

(***************************************************************************)
(* ReadSpec: Tape::parse on the files it can be given.  The program has an *)
(* event callsite and a span callsite of MaxFields fields each, already    *)
(* registered (their records are the first on the tape).  One thread       *)
(* records, with every callback of the layer, value sets in either order   *)
(* and records of other versions of the format among its own, all at the   *)
(* time MaxTs; the file ends with its last record and is read whole, cut   *)
(* inside its last record, or with another Intro.                          *)
(***************************************************************************)
EventCallsite == 1
SpanCallsite == 2
\* the records of the two calls of register_callsite, n fields each
Registered(n) ==
    <<CallsiteRecord(FALSE, n, EventCallsite)>>
        \o FieldRecords(EventCallsite, 1, n)
        \o <<CallsiteRecord(TRUE, n, SpanCallsite)>>
        \o FieldRecords(SpanCallsite, 1, n)
RegisteredCallsites(n) ==
    [c \in CallsiteIds |->
        IF c \in {EventCallsite, SpanCallsite}
        THEN [state |-> "done", span_kind |-> c = SpanCallsite, fields |-> n]
        ELSE NoCallsite]
RInit ==
    /\ WStart(0, 0) /\ writers = 1
    /\ TapeStartAt(Registered(MaxFields), RegisteredCallsites(MaxFields),
                   Len(Registered(MaxFields)) + MaxRead)

RNext ==
    \/ \E t \in Threads : WriteRecord(t)
    \/ \E t \in Threads, c \in CallsiteIds, ts \in {MaxTs} : OnEvent(t, c, ts)
    \/ \E t \in Threads, c \in CallsiteIds, ts \in {MaxTs} :
          OnEventReversed(t, c, ts)
    \/ \E t \in Threads, c \in CallsiteIds, id \in SpanIds,
          parent \in {0} \cup SpanIds, ts \in {MaxTs} :
              OnNewSpan(t, c, id, parent, ts)
    \/ \E t \in Threads, c \in CallsiteIds, id \in SpanIds,
          parent \in {0} \cup SpanIds, ts \in {MaxTs} :
              OnNewSpanLegacy(t, c, id, parent, ts)
    \/ \E t \in Threads, id \in SpanIds, j \in 1..MaxFields,
          type \in {FieldTypeU64, OtherFieldType} : OnRecord(t, id, j, type)
    \/ \E t \in Threads, id \in SpanIds, follows \in SpanIds :
          OnFollowsFrom(t, id, follows)
    \/ \E t \in Threads, kind \in OtherKinds,
          len \in {SizeOfRecordHeader, SizeOfRecordHeader + ValueLen} :
              WriteOther(t, kind, len)
    \/ \E t \in Threads, id \in SpanIds, ts \in {MaxTs} : OnEnter(t, id, ts)
    \/ \E t \in Threads, id \in SpanIds, ts \in {MaxTs} : OnExit(t, id, ts)
    \/ \E t \in Threads, id \in SpanIds, ts \in {MaxTs} : OnClose(t, id, ts)
    \/ Stop(0)
    \/ \E n \in {1, MaxCut} : StopCut(n)
    \/ \E i \in OtherIntros : StopOther(i)
    \/ ParseCallsite
    \/ ParseCallsiteField
    \/ ParseEvent
    \/ ParseEventValue
    \/ ParseOpenSpan
    \/ ParseEnterSpan
    \/ ParseExitSpan
    \/ ParseCloseSpan
    \/ ParseSpanValue
    \/ ParseOther
    \/ Finish

ReadSpec == RInit /\ [][RNext]_vars

(***************************************************************************)
(* OrderSpec: the events and spans NThreads threads record, at any         *)
(* timestamps, with callsites of one field each that are already           *)
(* registered, and Tape::parse of the file.                                *)
(***************************************************************************)
OInit ==
    /\ WStart(0, 0) /\ writers = NThreads
    /\ TapeStartAt(Registered(1), RegisteredCallsites(1),
                   Len(Registered(1)) + MaxRead)

ONext ==
    \/ \E t \in Threads : WriteRecord(t)
    \/ \E t \in Threads, c \in CallsiteIds, ts \in Timestamps : OnEvent(t, c, ts)
    \/ \E t \in Threads, c \in CallsiteIds, id \in SpanIds,
          parent \in {0} \cup SpanIds, ts \in Timestamps :
              OnNewSpan(t, c, id, parent, ts)
    \/ \E t \in Threads, id \in SpanIds, ts \in Timestamps : OnEnter(t, id, ts)
    \/ \E t \in Threads, id \in SpanIds, ts \in Timestamps : OnExit(t, id, ts)
    \/ \E t \in Threads, id \in SpanIds, ts \in Timestamps : OnClose(t, id, ts)
    \/ \E zeros \in {0, MaxPad} : Stop(zeros)
    \/ ParseNoop
    \/ ParseCallsite
    \/ ParseCallsiteField
    \/ ParseEvent
    \/ ParseEventValue
    \/ ParseOpenSpan
    \/ ParseEnterSpan
    \/ ParseExitSpan
    \/ ParseCloseSpan
    \/ Finish

OrderSpec == OInit /\ [][ONext]_vars

\* ---- the span callbacks of both threads, up to MaxSpanRecords records ----
\* after the records of the callsites, and the parser on the
\* tape they leave
EInit ==
    /\ WStart(0, 0) /\ writers = NThreads
    /\ TapeStartAt(Registered(1), RegisteredCallsites(1),
                   Len(Registered(1)) + MaxSpanRecords)

ENext ==
    \/ \E t \in Threads, id \in SpanIds, parent \in {0} \cup SpanIds,
          ts \in Timestamps : OnNewSpan(t, SpanCallsite, id, parent, ts)
    \/ \E t \in Threads, id \in SpanIds, ts \in Timestamps : OnEnter(t, id, ts)
    \/ \E t \in Threads, id \in SpanIds, ts \in Timestamps : OnExit(t, id, ts)
    \/ \E t \in Threads, id \in SpanIds, ts \in Timestamps : OnClose(t, id, ts)
    \/ Stop(0)
    \/ ParseCallsite
    \/ ParseCallsiteField
    \/ ParseOpenSpan
    \/ ParseEnterSpan
    \/ ParseExitSpan
    \/ ParseCloseSpan
    \/ Finish

EntranceSpec == EInit /\ [][ENext]_vars

\* ---- register_callsite of both threads, also repeated, up to ----
\* MaxCallsiteRecords records, and the parser on the tape they leave
GInit ==
    /\ WStart(0, 0) /\ writers = NThreads
    /\ TapeStartAt(<<>>, [c \in CallsiteIds |-> NoCallsite], MaxCallsiteRecords)

GNext ==
    \/ \E t \in Threads, c \in CallsiteIds, is_span \in BOOLEAN,
          n \in 0..MaxFields : RegisterCallsite(t, c, is_span, n)
    \/ \E t \in Threads, c \in CallsiteIds : RegisterCallsiteAgain(t, c)
    \/ \E t \in Threads : WriteRecord(t)
    \/ Stop(0)
    \/ ParseCallsite
    \/ ParseCallsiteField
    \/ Finish

CallsiteSpec == GInit /\ [][GNext]_vars

\* ---- on_event of both threads, up to MaxEventRecords records after ----
\* those of the callsites, and the parser on the tape they leave
VInit ==
    /\ WStart(0, 0) /\ writers = NThreads
    /\ TapeStartAt(Registered(MaxFields), RegisteredCallsites(MaxFields),
                   Len(Registered(MaxFields)) + MaxEventRecords)

VNext ==
    \/ \E t \in Threads : WriteRecord(t)
    \/ \E t \in Threads, ts \in Timestamps : OnEvent(t, EventCallsite, ts)
    \/ \E t \in Threads, ts \in Timestamps, n \in 0..MaxFields :
          OnEventWithEmpty(t, EventCallsite, ts, n)
    \/ Stop(0)
    \/ ParseCallsite
    \/ ParseCallsiteField
    \/ ParseEvent
    \/ ParseEventValue
    \/ Finish

EventSpec == VInit /\ [][VNext]_vars

\* ---- Tape::parse on a file of records of other kinds, written by ----
\* another program: up to MaxSkip records whose header.len is 0, the size
\* of the RecordHeader, or larger.  The loop of Intermediate::parse runs
\* one iteration after the other until data is empty or a handler panics.
SkipLens == {0, SizeOfRecordHeader, SizeOfRecordHeader + ValueLen}
KInit ==
    /\ WStart(0, 0) /\ writers = 1
    /\ TapeStartAt(<<>>, [c \in CallsiteIds |-> NoCallsite], MaxSkip)

KNext ==
    \/ \E kind \in OtherKinds, len \in SkipLens : OtherWritten(1, kind, len)
    \/ \E zeros \in {0, MaxPad} : Stop(zeros)
    \/ ParseNoop
    \/ ParseOther
    \/ Finish

SkipSpec ==
    /\ KInit /\ [][KNext]_vars
    /\ WF_vars(ParseNoop) /\ WF_vars(ParseOther) /\ WF_vars(Finish)

(***************************************************************************)
(* LengthSpec: the calls of write the callbacks make, one record at a      *)
(* time, for names and values of the lengths in Lengths.  written is the   *)
(* record of the last call: the length in its header, the size handed to   *)
(* write (the bytes write reserves) and the bytes the closure copies.      *)
(***************************************************************************)
\* self.inner.write(size, f) where f copies bytes bytes into the slice of
\* size bytes: Cursor::write_all fails when the slice is full, and the
\* unwrap panics
Write(kind, len, size, bytes) ==
    /\ written' = [kind |-> kind, len |-> len, size |-> size, bytes |-> bytes,
                   outcome |-> IF RecordTooLarge(size) THEN "too large"
                               ELSE IF bytes > size THEN "panicked"
                               ELSE "written"]
    /\ UNCHANGED <<wvars, tvars, head, statistics>>

\* EventValueRecorder::record_value with a value of value_len bytes;
\* EventValueRecord::new: (size_of::<Self>() + value_len) as u16
RecordEventValue(value_len) ==
    Write("EVENT_VALUE", AsU16(SizeOfEventValueRecord + value_len),
          SizeOfEventValueRecord + value_len,
          SizeOfEventValueRecord + value_len)

\* SpanValueRecorder::record_value with a value of value_len bytes;
\* SpanValueRecord::new: (size_of::<Self>() + value_len) as u16
RecordSpanValue(value_len) ==
    Write("SPAN_VALUE", AsU16(SizeOfSpanValueRecord + value_len),
          SizeOfSpanValueRecord + value_len,
          SizeOfSpanValueRecord + value_len)

\* register_callsite, the CALLSITE record: strings_len is the length of
\* name, target, module_path and file together; the header gets
\* record_len as u16
WriteCallsiteRecord(strings_len) ==
    Write("CALLSITE", AsU16(SizeOfCallsiteRecord + strings_len),
          SizeOfCallsiteRecord + strings_len,
          SizeOfCallsiteRecord + strings_len)

\* register_callsite, a CALLSITE_FIELD record for a name of name_len bytes.
\* CallsiteFieldRecord::new(field.name().len() as u16, ..) computes
\* size_of::<Self>() as u16 + field_name_len in u16: when the sum overflows,
\* a build with overflow checks panics and one without wraps.  Then
\* write(field_record.header.len.get() as usize, ..)
WriteCallsiteFieldRecord(name_len, overflow_checks) ==
    LET len == SizeOfCallsiteFieldRecord + AsU16(name_len)
    IN  IF len >= U16Range /\ overflow_checks
        THEN /\ written' = [NoWrite EXCEPT !.kind = "CALLSITE_FIELD",
                                           !.outcome = "panicked"]
             /\ UNCHANGED <<wvars, tvars, head, statistics>>
        ELSE Write("CALLSITE_FIELD", AsU16(len), AsU16(len),
                   SizeOfCallsiteFieldRecord + name_len)

\* the records without a name or a value: write(size_of_val(&record), ..)
\* and slice.copy_from_slice(record.as_bytes())
FixedRecords ==
    {<<EventRecord(0, 0, 1, 1), SizeOfEventRecord>>,
     <<SpanOpenRecord2(1, 0, 1, 0), SizeOfSpanOpenRecord2>>,
     <<SpanEnterRecord(1, 0, 1), SizeOfSpanEnterRecord>>,
     <<SpanExitRecord(1, 0), SizeOfSpanExitRecord>>,
     <<SpanCloseRecord(1, 0), SizeOfSpanCloseRecord>>,
     <<SpanFollowsRecord(1, 2), SizeOfSpanFollowsRecord>>}
WriteFixedRecord(r) == Write(r[1].kind, r[1].len, r[2], r[2])

LInit == WStart(0, 0) /\ writers = NThreads /\ TapeStart

LNext ==
    \/ \E value_len \in Lengths : RecordEventValue(value_len)
    \/ \E value_len \in Lengths : RecordSpanValue(value_len)
    \/ \E strings_len \in Lengths : WriteCallsiteRecord(strings_len)
    \/ \E name_len \in Lengths, overflow_checks \in BOOLEAN :
          WriteCallsiteFieldRecord(name_len, overflow_checks)
    \/ \E r \in FixedRecords : WriteFixedRecord(r)

LengthSpec == LInit /\ [][LNext]_vars

(***************************************************************************)
(* StatisticsSpec: calculate_span_statistics (trace-deck/src/statistics.rs)*)
(* on the parsed tapes that hold up to MaxStat closed spans of one         *)
(* callsite, of any durations up to MaxDuration in any order, and possibly *)
(* a span of another callsite.  A span is named by its place in            *)
(* tape.spans(), counted from 1.                                           *)
(***************************************************************************)
MaxStat == 7             \* spans of the callsite the statistics are made of
MaxDuration == 5         \* durations 0..MaxDuration

\* the spans the filter_map keeps, and the duration it computes
SpansOf(callsite_index) ==
    {i \in DOMAIN data.spans : data.spans[i].callsite_index = callsite_index}
Duration(i) == data.spans[i].closed - data.spans[i].opened
RECURSIVE Sum(_)
Sum(S) == IF S = {} THEN 0
          ELSE LET i == CHOOSE x \in S : TRUE IN Duration(i) + Sum(S \ {i})
\* a / b of two i64: the quotient rounded towards zero
TruncDiv(a, b) == IF a >= 0 THEN a \div b ELSE 0 - ((0 - a) \div b)

\* slice.select_nth_unstable_by_key(index, |(_, duration)| *duration) on the
\* spans S: it panics for index >= len; otherwise the slice is reordered so
\* that the element at index is the one a sort would put there, those
\* before it are not larger and those after it not smaller.  Which of
\* several equal elements goes where is not specified, so every outcome is
\* in the set: the spans below the value v of the sorted slice at index go
\* before it, and any of the spans equal to v fill the places up to index
\* and the place at index.
SelectNthPanics(S, index) == index >= Cardinality(S)
SortedAt(S, index) ==
    Duration(CHOOSE m \in S :
        /\ Cardinality({i \in S : Duration(i) < Duration(m)}) <= index
        /\ index < Cardinality({i \in S : Duration(i) <= Duration(m)}))
Selections(index, less, equal) ==
    {[lower |-> less \cup x[1], nth |-> x[2]] :
        x \in {y \in (SUBSET equal) \X equal :
                  /\ y[2] \notin y[1]
                  /\ Cardinality(y[1]) = index - Cardinality(less)}}
SelectNthOf(S, index, v) ==
    Selections(index, {i \in S : Duration(i) < v}, {i \in S : Duration(i) = v})
SelectNth(S, index) == SelectNthOf(S, index, SortedAt(S, index))
Upper(S, p) == S \ (p.lower \cup {p.nth})

\* 1.5 * iqr with the half rounded up
Iqr15_RoundedUp(iqr) == iqr + (iqr + 1) \div 2
\* let iqr_1_5 = iqr + iqr / 2
Iqr15(iqr) == iqr + TruncDiv(iqr, 2)

Panicked == [outcome |-> "panicked"]
\* the smallest and the largest duration of the spans, from the fold values
\* of the first pass
MinDuration(S) ==
    IF S = {} THEN I64Max
    ELSE Duration(CHOOSE i \in S : \A j \in S : Duration(i) <= Duration(j))
MaxDurationOf(S) ==
    IF S = {} THEN I64Min
    ELSE Duration(CHOOSE i \in S : \A j \in S : Duration(i) >= Duration(j))

\* calculate_span_statistics from line 57 on: q1, q2 and q3 are the
\* durations the three selections have put at their indices, smaller_q1
\* and greater_q3 the spans they have put before q1 and after q3
Quartiles(callsite_index, S, q1, q2, q3, smaller_q1, greater_q3) ==
    [outcome |-> "ok", callsite_index |-> callsite_index,
     q1 |-> q1, q2 |-> q2, q3 |-> q3, iqr |-> q3 - q1,
     min |-> MinDuration(S), max |-> MaxDurationOf(S),
     mean |-> TruncDiv(Sum(S), Cardinality(S)),
     span_indices |-> S,
     outliers_fast |-> {i \in smaller_q1 : Duration(i) < q1 - Iqr15(q3 - q1)},
     outliers_slow |-> {i \in greater_q3 : Duration(i) > q3 + Iqr15(q3 - q1)}]

\* the selections of the quartiles in the two halves
SelectHalves(callsite_index, S, p2, lower_half, upper_half) ==
    IF \/ SelectNthPanics(lower_half, Cardinality(lower_half) \div 2)
       \/ SelectNthPanics(upper_half, Cardinality(upper_half) \div 2)
    THEN {Panicked}
    ELSE {Quartiles(callsite_index, S, Duration(p1.nth), Duration(p2.nth),
                    Duration(p3.nth), p1.lower, Upper(upper_half, p3)) :
            p1 \in SelectNth(lower_half, Cardinality(lower_half) \div 2),
            p3 \in SelectNth(upper_half, Cardinality(upper_half) \div 2)}

\* calculate_span_statistics of the spans S: the results it can return, or
\* the panic of a selection on an empty slice
SpanStatistics(callsite_index, S) ==
    IF SelectNthPanics(S, Cardinality(S) \div 2) THEN {Panicked}
    ELSE UNION {SelectHalves(callsite_index, S, p2, p2.lower, Upper(S, p2)) :
                   p2 \in SelectNth(S, Cardinality(S) \div 2)}
calculate_span_statistics(callsite_index) ==
    SpanStatistics(callsite_index, SpansOf(callsite_index))

\* a closed span of the callsite, opened at the time opened
SpanOf(callsite_index, opened, duration, id) ==
    [callsite_index |-> callsite_index, opened |-> opened,
     closed |-> opened + duration, entrances |-> <<>>, values |-> <<>>,
     id |-> id]
\* the spans of the callsite 0 with the durations ds, and a span of the
\* callsite 1 before them, after them or nowhere
SpansWith(ds, other) ==
    LET own == [k \in DOMAIN ds |-> SpanOf(0, k, ds[k], k)]
        one == <<SpanOf(1, 0, MaxDuration, Len(ds) + 1)>>
    IN  IF other = "first" THEN one \o own
        ELSE IF other = "last" THEN own \o one
        ELSE own

\* the sequences of n durations from lo on that never decrease
RECURSIVE NonDecreasing(_, _)
NonDecreasing(n, lo) ==
    IF n = 0 THEN {<<>>}
    ELSE UNION {{<<d>> \o t : t \in NonDecreasing(n - 1, d)} : d \in lo..MaxDuration}

\* the viewer has parsed a tape with spans of these durations
ParsedSpans(ds, other) ==
    /\ phase' = "parsed"
    /\ data' = [NoTapeData EXCEPT
                   !.ok = TRUE,
                   !.callsites = <<[span_kind |-> TRUE, fields |-> <<>>],
                                   [span_kind |-> TRUE, fields |-> <<>>]>>,
                   !.spans = SpansWith(ds, other),
                   !.root_spans = [k \in DOMAIN SpansWith(ds, other) |-> k]]
    /\ UNCHANGED <<tape, todo, last_ts, registry, span_state, filevars, pos, im,
                   wvars, uvars>>

\* the viewer loads a tape.  The selections do not depend on the order of
\* the spans, so that the tapes that list them by duration, upwards or
\* downwards, stand for all
LoadTape ==
    /\ phase = "recording" /\ tape = <<>>
    /\ \E n \in 0..MaxStat :
          \E up \in NonDecreasing(n, 0), downwards \in BOOLEAN,
             other \in {"first", "last", "none"} :
              ParsedSpans(IF downwards THEN Reverse(up) ELSE up, other)

\* calculate_statistics for a span callsite
CalculateStatistics(callsite_index) ==
    /\ phase = "parsed" /\ statistics = NoStatistics
    /\ callsite_index + 1 \in DOMAIN data.callsites
    /\ data.callsites[callsite_index + 1].span_kind
    /\ \E result \in calculate_span_statistics(callsite_index) :
          statistics' = result
    /\ UNCHANGED <<wvars, tvars, written, head>>

SInit == WStart(0, 0) /\ writers = NThreads /\ TapeStart

SNext ==
    \/ LoadTape
    \/ \E callsite_index \in {0} : CalculateStatistics(callsite_index)

StatisticsSpec == SInit /\ [][SNext]_vars

(***************************************************************************)
(* The start of the file.  A recorder is dropped and with_file builds the  *)
(* next one on a new file, at another time of the clock.                   *)
(***************************************************************************)
MaxBase == 2147483647    \* the largest timestamp_base, in nanoseconds
\* unix_timestamp_nanos(): times before and after 1970, among them some
\* whose low bytes all differ
Bases == {0, 66051, MaxBase, 0 - 1, 0 - MaxBase}

\* TapeRecorder::with_file, with Chapter::new for both slots; g is what the
\* allocator left in the buffers
WithFile(base, g) ==
    /\ pc[Dropper] = "dropped"
    /\ intro' = IntroOf(ChapterSizePot, base)
    /\ head' = AsBytes(IntroOf(ChapterSizePot, base))
    /\ file' = [o \in {} |-> [i \in Bytes |-> 0]]
    /\ offset' = 0
    /\ chapter_index' = [s \in Slots |-> s]
    /\ data_offset' = [s \in Slots |-> 0]
    /\ bytes_written' = [s \in Slots |-> 0]
    /\ buffer' = [s \in Slots |-> [i \in Bytes |-> g]]
    /\ pc' = [q \in Procs |-> IF q = Dropper THEN "live" ELSE "idle"]
    /\ loc' = [q \in Procs |-> NoLoc]
    /\ calls' = 0
    /\ placed' = {}
    /\ UNCHANGED <<writers, tape, todo, last_ts, registry, span_state, phase,
                   pad, cut, limit, pos, im, data, written, statistics>>

IInit == (\E g \in {0, Junk} : WStart(0, g)) /\ writers \in Threads /\ TapeStart

INext ==
    \/ \E base \in Bases, g \in {0, Junk} : WithFile(base, g)
    \/ WNext /\ UNCHANGED <<tvars, uvars>>

IntroSpec == IInit /\ [][INext]_vars

(***************************************************************************)
(* CopySpec: the writer with one call more, from the states in which the   *)
(* next call ends chapter 0.  A thread can then fill chapter 1 and go on   *)
(* to chapter 2 while the other thread has not left chapter 0.             *)
(***************************************************************************)
CInit ==
    /\ \E p \in {ChapterSize - 2, ChapterSize - 1}, g \in {0, Junk} : WStart(p, g)
    /\ writers = NThreads
    /\ TapeStart

CNext ==
    \/ \E t \in Threads, sz \in 1..MaxSize :
          calls < MaxCallsCopy /\ ReserveRange(t, sz) /\ UNCHANGED <<tvars, uvars>>
    \/ WNext /\ UNCHANGED <<tvars, uvars>>

CopySpec == CInit /\ [][CNext]_vars

(***************************************************************************)
(* Properties of the chapter writer.                                       *)
(***************************************************************************)
InCall(p) == pc[p] \notin {"idle", "panicked", "live", "dropped"}
\* the offsets of the tape body (file offset minus the intro) that a
\* positional write has covered
BodyPositions == {(o - IntroSize) + i : o \in DOMAIN file, i \in Bytes}
BodyByte(g) == file[IntroSize + g - InChapter(g)][InChapter(g)]
Flushed(k) == FileOffset(k) \in DOMAIN file
Range(r) == r.start..(r.start + r.size - 1)
Retried(r) == r.thread # 0 /\ r.first # r.start
FileSize == IF DOMAIN file = {} THEN IntroSize
            ELSE (CHOOSE o \in DOMAIN file : \A q \in DOMAIN file : q <= o)
                 + ChapterSize
CeilDiv(a, b) == (a + b - 1) \div b

\* C1: once every write call has returned and the writer has been dropped,
\* the file holds every record exactly once: the bytes of the file that
\* carry a record's id are exactly the bytes of the range the record was
\* copied to (none missing, none overwritten, no second copy elsewhere).
C1_EveryRecordExactlyOnce ==
    pc[Dropper] = "dropped" =>
        \A r \in placed : {g \in BodyPositions : BodyByte(g) = r.id} = Range(r)

\* C2: the range a record is copied to has its first and its last byte in
\* the same chapter, and lies inside the slot buffer.
C2_NoRecordCrossesChapter ==
    \A r \in placed :
        /\ ChapterIndex(r.start) = ChapterIndex(r.start + r.size - 1)
        /\ InChapter(r.start) + r.size <= ChapterSize
C2_Witness ==
    \E r \in placed : Retried(r) /\ ChapterIndex(r.start) > ChapterIndex(r.first)

\* C3: every chapter that has been written to the file consists only of
\* complete records and zero bytes: a byte of it is zero or belongs to a
\* record that was copied to exactly that place, and a record copied into
\* the chapter is there in full.
C3_FlushedChapterIsRecordsAndZeros ==
    /\ \A g \in BodyPositions :
          \/ BodyByte(g) = 0
          \/ \E r \in placed : r.id = BodyByte(g) /\ g \in Range(r)
    /\ \A r \in placed :
          Flushed(ChapterIndex(r.start)) => \A g \in Range(r) : BodyByte(g) = r.id

\* C4: a write call (or the drop) that is under way can always be continued
\* by the threads that are inside a call: no thread waits in the slot-ready
\* loop or in the flush loop for something that no call under way will
\* ever provide.  (Threads are not obliged to make further calls.)
C4_NoCallWaitsForever ==
    (\E p \in Procs : InCall(p)) => \E p \in Procs : InCall(p) /\ ENABLED Step(p)

\* C5: of two records of one thread, the one written by the earlier call is
\* stored at the lower offset, also when a call had to reserve again.
C5_PerThreadOrder ==
    \A r1, r2 \in placed :
        (r1.thread = r2.thread /\ r1.n < r2.n) => r1.start < r2.start
C5_Witness ==
    \E r1, r2 \in placed :
        /\ r1.thread = r2.thread /\ r1.thread # 0 /\ r1.n < r2.n
        /\ (Retried(r1) \/ Retried(r2))

\* C6: a call with size > chapter_size / 4 panics and changes nothing of the
\* writer (offset, both slots, the buffers, the file); a call with
\* size <= chapter_size / 4 is accepted and reserves its range.
C6_RejectChangesNothing ==
    [][\A t \in Threads :
          /\ (pc[t] = "idle" /\ pc'[t] = "panicked") =>
                /\ loc'[t].size > ChapterSize \div 4
                /\ UNCHANGED <<offset, chapter_index, data_offset,
                               bytes_written, buffer, file>>
          /\ (pc[t] = "idle" /\ pc'[t] = "slot") =>
                /\ loc'[t].size <= ChapterSize \div 4
                /\ offset' = offset + loc'[t].size]_vars
C6_Witness ==
    /\ \E t \in Threads : pc[t] = "panicked"
    /\ \E r \in placed : r.thread # 0 /\ r.size = ChapterSize \div 4

\* C7 as claimed: with a single writer, a record whose reservation straddled
\* the end of chapter k leaves chapter k zero from its original offset on,
\* the next slot's data_offset is 0 and the record starts at in-chapter
\* offset 0 of chapter k+1.
C7_StraddleLandsAtOffsetZero ==
    writers = 1 =>
        \A r \in placed : Retried(r) =>
            LET k == ChapterIndex(r.first)
                s == SlotOf(k + 1)
            IN  /\ Flushed(k)
                /\ \A i \in Bytes : i >= InChapter(r.first) =>
                                        BodyByte(k * ChapterSize + i) = 0
                /\ chapter_index[s] = k + 1 => data_offset[s] = 0
                /\ ChapterIndex(r.start) = k + 1
                /\ InChapter(r.start) = 0

\* C7 amended: with a single writer, such a record leaves chapter k zero from
\* its original offset on; the next slot's data_offset is the number d of
\* bytes by which the reservation reached into chapter k+1
\* (data_end & mask, never 0); these d leading bytes of chapter k+1 are
\* zero and the record is stored entirely in chapter k+1 at in-chapter
\* offset d.
C7_StraddleLandsAfterOverhang ==
    writers = 1 =>
        \A r \in placed : Retried(r) =>
            LET k == ChapterIndex(r.first)
                s == SlotOf(k + 1)
                d == InChapter(r.first + r.size)
            IN  /\ Flushed(k)
                /\ \A i \in Bytes : i >= InChapter(r.first) =>
                                        BodyByte(k * ChapterSize + i) = 0
                /\ d > 0
                /\ chapter_index[s] = k + 1 =>
                      /\ data_offset[s] = d
                      /\ \A i \in 0..(d - 1) : buffer[s][i] = 0
                /\ Flushed(k + 1) =>
                      \A i \in 0..(d - 1) : BodyByte((k + 1) * ChapterSize + i) = 0
                /\ ChapterIndex(r.start) = k + 1
                /\ InChapter(r.start) = d
                /\ ChapterIndex(r.start + r.size - 1) = k + 1
C7_Witness ==
    /\ writers = 1
    /\ \E r \in placed : Retried(r) /\ Flushed(ChapterIndex(r.start))

\* C8 as claimed: after the drop the file size is
\* intro_size + ceil(total_bytes / chapter_size) * chapter_size.
C8_FileSizeIsCeil ==
    pc[Dropper] = "dropped" =>
        FileSize = IntroSize + CeilDiv(offset, ChapterSize) * ChapterSize

\* C8 amended: after the drop the file size is
\* intro_size + (floor(total_bytes / chapter_size) + 1) * chapter_size: the
\* drop always writes the active chapter, also when it is empty, so the
\* size exceeds the claimed one by one chapter when total_bytes is 0 or a
\* multiple of chapter_size.
C8_FileSizeIsFloorPlusOne ==
    pc[Dropper] = "dropped" =>
        /\ FileSize = IntroSize + (offset \div ChapterSize + 1) * ChapterSize
        /\ \A k \in 0..ChapterIndex(offset) : Flushed(k)
C8_Witness ==
    /\ pc[Dropper] = "dropped"
    /\ InChapter(offset) = 0
    /\ \E r \in placed : r.thread # 0

(***************************************************************************)
(* Properties of the parser on the tapes the recorder produces.            *)
(***************************************************************************)
ParseEnded == phase \in {"parsed", "panicked"}
\* every callback that began has written all its records
Complete == \A t \in Threads : todo[t] = <<>>
RecordsOfKind(kind) == {i \in DOMAIN tape : tape[i].kind = kind}
\* the EVENT_VALUE records written for the EVENT record at position i: those
\* of its thread that follow it before the thread's next EVENT record
ValuePositions(i) ==
    {j \in RecordsOfKind("EVENT_VALUE") :
        /\ j > i /\ tape[j].thread_id = tape[i].thread_id
        /\ \A k \in RecordsOfKind("EVENT") :
              tape[k].thread_id = tape[i].thread_id => ~(i < k /\ k < j)}
\* their values, in the order they were written (the order of the
\* callsite's fields)
WrittenValues(i) ==
    LET js == ValuePositions(i)
    IN  [k \in 1..Cardinality(js) |->
            tape[CHOOSE j \in js : Cardinality({x \in js : x < j}) = k - 1].value]
EventOf(i) == {k \in DOMAIN data.events : data.events[k].src = i}
\* the callsites whose CALLSITE record and all field records are on the tape
CompleteCallsites ==
    {i \in RecordsOfKind("CALLSITE") :
        Cardinality({j \in RecordsOfKind("CALLSITE_FIELD") :
                        j > i /\ tape[j].callsite_id = tape[i].callsite_id})
            = tape[i].count}

\* C9: a tape whose recording stopped at any point, inside a callback or
\* not, parses without failing, and what was completely written is in the
\* model: every callsite with all its fields, every event with all its
\* values, every span that was opened.
C9_PartialTapeIsReadable ==
    ParseEnded =>
        /\ phase = "parsed"
        /\ Len(data.callsites) = Cardinality(CompleteCallsites)
        /\ \A i \in RecordsOfKind("EVENT") :
              Cardinality(ValuePositions(i)) = tape[i].count => EventOf(i) # {}
        /\ Len(data.spans) = Cardinality(RecordsOfKind("SPAN_OPEN"))

\* C10: when the tape holds callsites and events only and every thread has
\* written, for each of its events, the EVENT record and the n EVENT_VALUE
\* records it declares (in any interleaving), the parsed tape has
\* exactly one event per EVENT record, with the callsite of that record and
\* the n values its thread wrote for it; while parsing, an EVENT record
\* with n = 0 is among the complete events as soon as it has been read.
C10_OneEventPerEventRecord ==
    /\ (ParseEnded /\ Complete /\ RecordsOfKind("SPAN_OPEN") = {}) =>
          /\ phase = "parsed"
          /\ Len(data.events) = Cardinality(RecordsOfKind("EVENT"))
          /\ \A i \in RecordsOfKind("EVENT") :
                /\ Cardinality(EventOf(i)) = 1
                /\ \A k \in EventOf(i) :
                      /\ im.callsites[data.events[k].callsite_index + 1].id
                            = tape[i].callsite_id
                      /\ data.events[k].timestamp = tape[i].timestamp
                      /\ data.events[k].values = WrittenValues(i)
    /\ phase = "parsing" =>
          \A i \in RecordsOfKind("EVENT") :
              (i < pos /\ tape[i].count = 0) =>
                  \E k \in DOMAIN im.events : im.events[k].src = i

\* the place of the parsed event k among the events the first pass completed
CompletedAt(k) ==
    CHOOSE j \in DOMAIN im.events : im.events[j].src = data.events[k].src

\* C11: the events of a parsed tape are in the order of their timestamps,
\* never decreasing, and two events with the same timestamp are in the
\* order in which the first pass completed them.
C11_EventsSortedStable ==
    phase = "parsed" =>
        \A k1, k2 \in DOMAIN data.events :
            k1 < k2 =>
                /\ data.events[k1].timestamp <= data.events[k2].timestamp
                /\ data.events[k1].timestamp = data.events[k2].timestamp
                      => CompletedAt(k1) < CompletedAt(k2)
\* a parsed tape whose events were completed against the order of their
\* timestamps
C11_Witness ==
    /\ phase = "parsed"
    /\ \E j1, j2 \in DOMAIN im.events :
          j1 < j2 /\ im.events[j1].timestamp > im.events[j2].timestamp

\* the field ids of the CALLSITE_FIELD records that follow the CALLSITE
\* record at position i for its id, in the order of the tape
DeclaredFields(i) ==
    LET js == {j \in RecordsOfKind("CALLSITE_FIELD") :
                  j > i /\ tape[j].callsite_id = tape[i].callsite_id}
    IN  [k \in 1..Cardinality(js) |->
            tape[CHOOSE j \in js : Cardinality({x \in js : x < j}) = k - 1].field_id]

\* C13: on a tape of callsites and events whose callbacks have all
\* completed, the parse succeeds (every event resolves to its callsite) and
\* every CALLSITE record declaring n >= 0 fields, followed by its n
\* CALLSITE_FIELD records, is a callsite of the parsed tape with exactly
\* those fields in the order of the records.
C13_EveryCallsitePromoted ==
    (ParseEnded /\ Complete /\ RecordsOfKind("SPAN_OPEN") = {}) =>
        /\ phase = "parsed"
        /\ \A i \in RecordsOfKind("CALLSITE") :
              \E k \in DOMAIN data.callsites :
                  /\ im.callsites[k].id = tape[i].callsite_id
                  /\ data.callsites[k].span_kind = tape[i].span_kind
                  /\ data.callsites[k].fields = DeclaredFields(i)

(***************************************************************************)
(* Properties of the parser on the files of ReadSpec.                      *)
(***************************************************************************)
\* the field a recorded value belongs to (ValueOf), and the position of a
\* field in the field list of a parsed callsite
FieldOf(v) == FieldId(v % (MaxFields + 1))
Position(callsite_index, field_id) ==
    CHOOSE p \in DOMAIN data.callsites[callsite_index + 1].fields :
        data.callsites[callsite_index + 1].fields[p] = field_id
InFieldOrder(callsite_index, values) ==
    \A a, b \in DOMAIN values :
        a < b => Position(callsite_index, FieldOf(values[a]))
                    < Position(callsite_index, FieldOf(values[b]))

\* C12: in a parsed tape the values of every event and of every span are in
\* the order of their fields in the field list of the callsite, in whatever
\* order the EVENT_VALUE and SPAN_VALUE records are on the tape; an event
\* has all the values its thread wrote for it.
C12_ValuesInFieldOrder ==
    phase = "parsed" =>
        /\ \A k \in DOMAIN data.events :
              /\ InFieldOrder(data.events[k].callsite_index, data.events[k].values)
              /\ Len(data.events[k].values) = tape[data.events[k].src].count
        /\ \A k \in DOMAIN data.spans :
              InFieldOrder(data.spans[k].callsite_index, data.spans[k].values)
\* a parsed span with two values whose SPAN_VALUE records are on the tape
\* against the order of the fields
C12_Witness ==
    /\ phase = "parsed"
    /\ \E k \in DOMAIN data.spans :
          /\ Len(data.spans[k].values) = 2
          /\ \E i, j \in RecordsOfKind("SPAN_VALUE") :
                /\ i < j
                /\ tape[i].id = data.spans[k].id /\ tape[j].id = data.spans[k].id
                /\ tape[i].value = data.spans[k].values[2]
                /\ tape[j].value = data.spans[k].values[1]

\* C14: a record of a kind the parser does not handle (THREAD_NAME,
\* SPAN_FOLLOWS, a kind the format does not define) that is followed by
\* another record is skipped: the step leaves the parser's state as it was
\* and the next record read is the one that starts header.len bytes later,
\* so that the parsed tape is the one of the tape without that record.
C14_OtherRecordIsSkipped ==
    [][(/\ phase = "parsing" /\ pos \in DOMAIN tape /\ pos < Len(tape)
        /\ tape[pos].kind \notin HandledKinds)
          => (im' = im /\ pos' = pos + 1 /\ phase' = "parsing" /\ data' = data)]_vars
\* a parsed tape with a record of an undefined kind between the SPAN_OPEN
\* and the SPAN_CLOSE record of a span that is in the parsed tape
C14_Witness ==
    /\ phase = "parsed"
    /\ Len(data.spans) = 1
    /\ \E i \in DOMAIN tape :
          /\ 1 < i /\ i < Len(tape)
          /\ tape[i].kind = "UNKNOWN" /\ tape[i].len > SizeOfRecordHeader
          /\ tape[i - 1].kind = "SPAN_OPEN" /\ tape[i + 1].kind = "SPAN_CLOSE"

\* C15: when the file ends inside its last record (the header or the
\* payload is cut off), that record is skipped and Tape::parse returns the
\* model of the records before it instead of failing.
C15_TruncatedRecordIsSkipped ==
    (ParseEnded /\ cut > 0) => phase = "parsed"

\* C16: a value record whose value kind is none of field_type, in a file
\* that is not cut, does not abort the parse: the step that reads it goes on
\* to the next record, and only that value is missing.
C16_OtherValueKindIsDropped ==
    [][(/\ phase = "parsing" /\ pos \in DOMAIN tape /\ cut = 0
        /\ tape[pos].kind \in {"EVENT_VALUE", "SPAN_VALUE"}
        /\ tape[pos].type \notin FieldTypes)
          => (phase' = "parsing" /\ pos' = pos + 1)]_vars

\* C17: a model is produced only from a file whose Intro has the magic
\* TAPEFILE and the major version of the parser.
C17_IntroIsChecked ==
    phase = "parsed" => (intro.magic = Magic /\ intro.major = IntroNew.major)

(***************************************************************************)
(* Properties of the parsed spans.                                         *)
(***************************************************************************)
\* C18: every span with a SPAN_OPEN record is a span of the parsed tape,
\* and one without a SPAN_CLOSE record has closed = the largest timestamp
\* of the tape.
C18_EveryOpenedSpanIsParsed ==
    phase = "parsed" =>
        \A i \in RecordsOfKind("SPAN_OPEN") :
            \E k \in DOMAIN data.spans :
                /\ data.spans[k].id = tape[i].id
                /\ (\A j \in RecordsOfKind("SPAN_CLOSE") : tape[j].id # tape[i].id)
                      => data.spans[k].closed = data.max_timestamp

\* C19: every span of the parsed tape was opened no later than it was
\* closed, on every tape the threads record (each callback reads the one
\* monotonic clock when it begins, and on_close of a span begins after its
\* on_new_span, on_enter and on_exit have returned).
C19_OpenedBeforeClosed ==
    phase = "parsed" =>
        \A k \in DOMAIN data.spans :
            data.spans[k].opened <= data.spans[k].closed
\* a parsed span that was entered, exited and closed later than it was
\* opened
C19_Witness ==
    /\ phase = "parsed"
    /\ \E k \in DOMAIN data.spans :
          /\ data.spans[k].opened < data.spans[k].closed
          /\ Len(data.spans[k].entrances) = 1
          /\ data.spans[k].entrances[1].exited = data.spans[k].closed

\* C20: a SPAN_OPEN record of either layout (header.len 35 without the
\* parent kind, 36 with it) that is in the file whole is read into the span
\* of its id, parent_id, callsite_id and timestamp, the same for both
\* layouts, and the next record read is the one that starts header.len
\* bytes later.
C20_BothSpanOpenLayouts ==
    [][(/\ phase = "parsing" /\ pos \in DOMAIN tape
        /\ tape[pos].kind = "SPAN_OPEN"
        /\ tape[pos].len \in {SizeOfSpanOpenRecord, SizeOfSpanOpenRecord2}
        /\ (pos < Len(tape) \/ cut = 0))
          => (/\ phase' = "parsing" /\ pos' = pos + 1
              /\ Len(im'.span_graph) = Len(im.span_graph) + 1
              /\ im'.opened_spans[tape[pos].id] = Len(im'.span_graph)
              /\ im'.span_graph[Len(im'.span_graph)] =
                    [id |-> tape[pos].id, opened |-> tape[pos].timestamp,
                     closed |-> 0, entrances |-> <<>>,
                     callsite_id |-> tape[pos].callsite_id,
                     parent_id |-> tape[pos].parent_id, values |-> EmptyMap])]_vars
\* a parsed tape with two root spans of the same callsite and timestamps,
\* one opened by a record of each layout
C20_Witness ==
    /\ phase = "parsed"
    /\ Len(data.spans) = 2
    /\ [callsite_index |-> data.spans[1].callsite_index,
        opened |-> data.spans[1].opened, closed |-> data.spans[1].closed]
          = [callsite_index |-> data.spans[2].callsite_index,
             opened |-> data.spans[2].opened, closed |-> data.spans[2].closed]
    /\ \E i, j \in RecordsOfKind("SPAN_OPEN") :
          /\ tape[i].len = SizeOfSpanOpenRecord
          /\ tape[j].len = SizeOfSpanOpenRecord2
          /\ tape[i].parent_id = 0 /\ tape[j].parent_id = 0

(***************************************************************************)
(* Properties of the records' lengths.                                     *)
(***************************************************************************)
\* C21: for every record that write accepts and the callback writes, the
\* length in the record's header is the number of bytes reserved for it,
\* which is the number of bytes copied (the fixed part and the name or
\* value), for every size up to chapter_size / 4 = 262144.
C21_HeaderLenIsRecordSize ==
    written.outcome = "written" =>
        /\ written.len = written.size
        /\ written.size = written.bytes

(***************************************************************************)
(* Properties of the parsed tape's time range.                             *)
(***************************************************************************)
\* the timestamps of the records of the tape that bear one
TimestampsOnTape ==
    {tape[i].timestamp :
        i \in {j \in DOMAIN tape :
                  tape[j].kind \in {"EVENT", "SPAN_OPEN", "SPAN_ENTER",
                                    "SPAN_EXIT", "SPAN_CLOSE"}}}

\* C22: after parsing, min_timestamp and max_timestamp are the smallest and
\* the largest timestamp among the EVENT, SPAN_OPEN, SPAN_ENTER, SPAN_EXIT
\* and SPAN_CLOSE records of the tape.
C22_RangeCoversEveryTimestamp ==
    (phase = "parsed" /\ TimestampsOnTape # {}) =>
        /\ \A ts \in TimestampsOnTape :
              data.min_timestamp <= ts /\ ts <= data.max_timestamp
        /\ data.min_timestamp \in TimestampsOnTape
        /\ data.max_timestamp \in TimestampsOnTape

\* C23: the parse of a tape that holds the Intro alone, or the Intro and
\* zero bytes, has no callsite, no event and no span, min_timestamp =
\* i64::MAX and max_timestamp = i64::MIN, and its time_range is
\* timestamp_base..=timestamp_base.
C23_EmptyTape ==
    (ParseEnded /\ tape = <<>>) =>
        /\ phase = "parsed"
        /\ data.callsites = <<>> /\ data.events = <<>> /\ data.spans = <<>>
        /\ data.min_timestamp = I64Max /\ data.max_timestamp = I64Min
        /\ time_range = [start |-> intro.timestamp_base,
                         end |-> intro.timestamp_base]

(***************************************************************************)
(* Properties of the statistics of a span callsite.                        *)
(***************************************************************************)

\* C24: for a span callsite with at least one span, calculate_span_statistics
\* returns a result, with min <= q1 <= q2 <= q3 <= max, with q2 the
\* duration at index n / 2 of the sorted durations, q1 and q3 the durations
\* at the middle indices of the lower and the upper part, and with
\* mean = sum / n.
C24_StatisticsOfEverySpanCallsite ==
    (statistics # NoStatistics /\ SpansOf(0) # {}) =>
        /\ statistics.outcome = "ok"
        /\ statistics.min <= statistics.q1
        /\ statistics.q1 <= statistics.q2
        /\ statistics.q2 <= statistics.q3
        /\ statistics.q3 <= statistics.max
        /\ statistics.q2 = SortedAt(SpansOf(0), Cardinality(SpansOf(0)) \div 2)
        /\ statistics.q1 = SortedAt(SpansOf(0), (Cardinality(SpansOf(0)) \div 2) \div 2)
        /\ statistics.q3 = SortedAt(SpansOf(0),
                                    Cardinality(SpansOf(0)) \div 2 + 1
                                    + (Cardinality(SpansOf(0))
                                       - Cardinality(SpansOf(0)) \div 2 - 1) \div 2)
        /\ statistics.mean = TruncDiv(Sum(SpansOf(0)), Cardinality(SpansOf(0)))

\* C25: for a span callsite with at least three spans, outliers_fast is the
\* set of its spans with duration < q1 - 1.5 * iqr and outliers_slow the
\* set of its spans with duration > q3 + 1.5 * iqr, where iqr = q3 - q1
\* (compared in halves: 2 * duration against 2 * q -+ 3 * iqr).
C25_TukeyOutliers ==
    (statistics # NoStatistics /\ Cardinality(SpansOf(0)) >= 3) =>
        /\ statistics.outcome = "ok"
        /\ statistics.iqr = statistics.q3 - statistics.q1
        /\ statistics.outliers_fast =
               {i \in SpansOf(0) :
                   2 * Duration(i) < 2 * statistics.q1 - 3 * statistics.iqr}
        /\ statistics.outliers_slow =
               {i \in SpansOf(0) :
                   2 * Duration(i) > 2 * statistics.q3 + 3 * statistics.iqr}
\* statistics with an odd interquartile range, a fast and a slow outlier
C25_Witness ==
    /\ statistics # NoStatistics
    /\ statistics.outcome = "ok"
    /\ statistics.iqr % 2 = 1
    /\ statistics.outliers_fast # {}
    /\ statistics.outliers_slow # {}

(***************************************************************************)
(* Properties of the start of the file.                                    *)
(***************************************************************************)

\* the integer that n bytes hold in two's complement, lowest byte first
RECURSIVE FromLeBytes(_)
FromLeBytes(bs) ==
    IF Len(bs) = 1 THEN (IF bs[1] >= 128 THEN bs[1] - 256 ELSE bs[1])
    ELSE bs[1] + 256 * FromLeBytes(Tail(bs))

\* C26: the intro at the start of the file is 32 bytes: TAPEFILE, the
\* version's major and minor, chapter_size_log2, five zero bytes and the
\* timestamp_base as a little-endian i128; the chapters the recorder has
\* written lie behind it, chapter k at 32 + k * chapter_size, and hold the
\* records placed at the tape offsets of chapter k.
C26_IntroLayout ==
    /\ Len(head) = 32
    /\ SubSeq(head, 1, 8) = <<84, 65, 80, 69, 70, 73, 76, 69>>
    /\ head[9] = intro.major
    /\ head[10] = intro.minor
    /\ head[11] = ChapterSizePot
    /\ \A i \in 12..16 : head[i] = 0
    /\ FromLeBytes(SubSeq(head, 17, 32)) = intro.timestamp_base
    /\ \A o \in DOMAIN file : o >= Len(head) /\ (o - 32) % ChapterSize = 0
    /\ \A r \in placed :
          LET k == r.start \div ChapterSize
          IN  32 + k * ChapterSize \in DOMAIN file =>
                  file[32 + k * ChapterSize][r.start % ChapterSize] = r.id
\* a recorder built at a time before 1970 has written its chapters 0 and 1
C26_Witness ==
    /\ intro.timestamp_base < 0 - 1
    /\ head = AsBytes(intro)
    /\ {32, 32 + ChapterSize} \subseteq DOMAIN file
    /\ \E r \in placed : r.start >= ChapterSize /\ r.thread # 0

(***************************************************************************)
(* Properties of the chapters in flight.                                   *)
(***************************************************************************)

\* C27: when finish writes a chapter's buffer to the file, no write call
\* that has reserved a range of that chapter below end_offset is still
\* waiting for the slot or about to copy its record: each has copied it.
C27_FlushAfterCopies ==
    [][\A p \in Procs :
          (pc[p] = "fin_wait" /\ pc'[p] = "fin_reset") =>
              \A t \in Threads :
                  ~ /\ pc[t] \in {"slot", "copy"}
                    /\ loc[t].data_start \div ChapterSize
                           = (loc[t].data_start + loc[t].size - 1) \div ChapterSize
                    /\ loc[t].data_start \div ChapterSize
                           = chapter_index[loc[p].slot]
                    /\ loc[t].data_start % ChapterSize < loc[p].end_offset]_vars
\* a thread has just written a chapter that holds records of both threads
\* while the other thread is inside a later write call
C27_Witness ==
    \E p \in Threads, t \in Threads :
        /\ p # t
        /\ pc[p] = "fin_reset"
        /\ pc[t] \in {"slot", "copy", "publish"}
        /\ \E r1 \in placed, r2 \in placed :
              /\ r1.thread = p /\ r2.thread = t
              /\ r1.start \div ChapterSize = chapter_index[loc[p].slot]
              /\ r2.start \div ChapterSize = chapter_index[loc[p].slot]

\* C28: in every state of the writer the chapter_index values of the two
\* slots differ by exactly one.
C28_SlotsOneApart ==
    \/ chapter_index[0] = chapter_index[1] + 1
    \/ chapter_index[1] = chapter_index[0] + 1

\* C29: chapters are written to the file in increasing order: when chapter
\* k + 1 is written, chapter k has been written.
C29_FlushedInOrder ==
    [][\A p \in Procs :
          (pc[p] = "fin_wait" /\ pc'[p] = "fin_reset"
             /\ chapter_index[loc[p].slot] >= 1) =>
              32 + (chapter_index[loc[p].slot] - 1) * ChapterSize
                  \in DOMAIN file]_vars

\* C30: the records of any two write calls are copied into disjoint byte
\* ranges of the tape, and a thread copies into a slot's buffer only while
\* the slot's chapter_index is the chapter of its reservation, so that
\* whoever is flushing that slot is flushing that chapter.
C30_CopiesApart ==
    [][\A t \in Threads :
          (pc[t] = "copy" /\ pc'[t] = "publish") =>
              /\ \A r1 \in placed' \ placed, r2 \in placed :
                    \/ r1.start + r1.size <= r2.start
                    \/ r2.start + r2.size <= r1.start
              /\ chapter_index[loc[t].slot] = loc[t].data_start \div ChapterSize
              /\ loc[t].slot = (loc[t].data_start \div ChapterSize) % 2
              /\ (loc[t].data_start + loc[t].size - 1) \div ChapterSize
                     = loc[t].data_start \div ChapterSize
              /\ \A p \in Procs :
                    (pc[p] \in {"fin_fill", "fin_wait", "fin_reset"}
                       /\ loc[p].slot = loc[t].slot) =>
                        loc[p].data_start \div ChapterSize
                            = loc[t].data_start \div ChapterSize]_vars
\* a thread has copied a record into chapter 2, in the slot that held
\* chapter 0: it had ended and flushed chapter 1 itself, and chapter 0 was
\* ended by the other thread
C30_Witness ==
    \E t \in Threads :
        /\ pc[t] = "publish"
        /\ loc[t].data_start \div ChapterSize = 2
        /\ \E r2 \in placed : r2.thread = t /\ r2.start = loc[t].data_start
        /\ \E r1 \in placed : r1.thread = t /\ r1.start + r1.size = 2 * ChapterSize
        /\ \E r0 \in placed :
              r0.thread \in Threads \ {t} /\ r0.start + r0.size = ChapterSize

\* C31: a chapter is written to the file at most once, at the offset
\* intro_size + k * chapter_size, by its one owner: the thread whose
\* reservation ends at the end of chapter k or straddles it, or the drop
\* for the chapter the offset stands in; and a slot's chapter_index changes
\* only from k to k + 2, after chapter k has been written, with
\* bytes_written reset to 0.
C31_WrittenOnceByOwner ==
    [][/\ \A p \in Procs :
             (pc[p] = "fin_wait" /\ pc'[p] = "fin_reset") =>
                 LET k == chapter_index[loc[p].slot]
                 IN  /\ 32 + k * ChapterSize \notin DOMAIN file
                     /\ DOMAIN file' = DOMAIN file \cup {32 + k * ChapterSize}
                     /\ file'[32 + k * ChapterSize] = buffer[loc[p].slot]
                     /\ loc[p].data_start \div ChapterSize = k
                     /\ \/ p = Dropper /\ loc[p].data_start = offset
                        \/ /\ p # Dropper
                           /\ loc[p].data_start + loc[p].size >= (k + 1) * ChapterSize
                     /\ \A q \in Procs \ {p} :
                           pc[q] \in {"fin_fill", "fin_wait", "fin_reset"} =>
                               loc[q].slot # loc[p].slot
       /\ \A s \in Slots :
             chapter_index'[s] # chapter_index[s] =>
                 /\ chapter_index'[s] = chapter_index[s] + 2
                 /\ 32 + chapter_index[s] * ChapterSize \in DOMAIN file
                 /\ bytes_written'[s] = 0
                 /\ \E p \in Procs : pc[p] = "fin_reset" /\ loc[p].slot = s]_vars
\* chapters 0, 1 and 2 are in the file: one written by a thread whose
\* record straddled its end, and the last one by the drop
C31_Witness ==
    /\ pc[Dropper] = "dropped"
    /\ {32, 32 + ChapterSize, 32 + 2 * ChapterSize} \subseteq DOMAIN file
    /\ \E r \in placed : r.thread # 0 /\ r.first # r.start

\* C32: when a thread whose reservation straddled the end of chapter k
\* reserves again after flushing chapter k, the new range lies entirely in
\* chapter k + 1.
C32_RetryLandsInNextChapter ==
    [][\A t \in Threads :
          (pc[t] = "retry" /\ pc'[t] = "slot") =>
              /\ loc'[t].data_start \div ChapterSize
                     = loc[t].data_start \div ChapterSize + 1
              /\ (loc'[t].data_start + loc'[t].size - 1) \div ChapterSize
                     = loc[t].data_start \div ChapterSize + 1]_vars

\* C35: when finish computes the expected byte count of chapter k, the
\* slot's data_offset is the value of chapter k: not the u64::MAX of the
\* reset, and, while the thread whose record straddled into chapter k has
\* not stored it yet, already the number of bytes that record reserved in
\* chapter k.
C35_DataOffsetOfTheChapter ==
    [][\A p \in Procs :
          (pc[p] = "fin_fill" /\ pc'[p] = "fin_wait") =>
              LET s == loc[p].slot
                  k == chapter_index[s]
              IN  /\ data_offset[s] # 0 - 1
                  /\ loc'[p].expected = loc[p].end_offset - data_offset[s]
                  /\ \A t \in Threads :
                        (/\ loc[t].ret = "straddle"
                         /\ pc[t] \in {"fin_fill", "fin_wait", "fin_reset",
                                        "next_slot", "next_store"}
                         /\ loc[t].data_start \div ChapterSize + 1 = k) =>
                            data_offset[s]
                                = (loc[t].data_start + loc[t].size) % ChapterSize]_vars

(***************************************************************************)
(* Properties of the entrances of the spans.                               *)
(***************************************************************************)

\* the place on the tape of the n-th SPAN_ENTER record of the span
EnterPos(id, n) ==
    CHOOSE p \in DOMAIN tape :
        /\ tape[p].kind = "SPAN_ENTER" /\ tape[p].id = id
        /\ Cardinality({q \in 1..p : tape[q].kind = "SPAN_ENTER"
                                      /\ tape[q].id = id}) = n
\* the thread of the n-th entrance has left the span again: it is not
\* inside the span when the recording stops, or it has entered it again
HasExited(id, entrances, n) ==
    \/ span_state[id].state = "closed"
    \/ entrances[n].thread_id \notin span_state[id].entered
    \/ \E m \in DOMAIN entrances :
          m > n /\ entrances[m].thread_id = entrances[n].thread_id

\* C33: after the enter and exit records of a tape have been read, every
\* entrance whose thread has left the span holds the timestamp of an exit
\* from that span that follows the entrance on the tape, the exit of its
\* own thread, also when two threads are inside the span at the same time.
C33_ExitedOfOwnEntrance ==
    phase = "parsed" =>
        \A node \in DOMAIN im.span_graph :
            LET span == im.span_graph[node]
            IN  \A n \in DOMAIN span.entrances :
                    HasExited(span.id, span.entrances, n) =>
                        \E j \in DOMAIN tape :
                            /\ j > EnterPos(span.id, n)
                            /\ tape[j].kind = "SPAN_EXIT"
                            /\ tape[j].id = span.id
                            /\ tape[j].timestamp = span.entrances[n].exited

\* C34: in the parsed model, every entrance of every span has
\* entered <= exited, and its exited is the timestamp of an exit from the
\* span recorded after the entrance or, failing that, the largest
\* timestamp of the tape.
C34_EnteredBeforeExited ==
    phase = "parsed" =>
        \A i \in DOMAIN data.spans :
            LET span == data.spans[i]
            IN  \A n \in DOMAIN span.entrances :
                    /\ span.entrances[n].entered <= span.entrances[n].exited
                    /\ \/ \E j \in DOMAIN tape :
                             /\ j > EnterPos(span.id, n)
                             /\ tape[j].kind = "SPAN_EXIT"
                             /\ tape[j].id = span.id
                             /\ tape[j].timestamp = span.entrances[n].exited
                       \/ span.entrances[n].exited = data.max_timestamp

\* C36: Intermediate::parse terminates: once Tape::parse has started the
\* loop on a file, the loop ends, with the parsed tape or with a panic,
\* also when a record of an unknown kind has header.len = 0.
C36_ParseTerminates ==
    (phase = "parsing") ~> (phase \in {"parsed", "panicked"})

\* C37: on a tape written by on_event calls that have all returned, the
\* assertion of Intermediate::event holds whenever an EVENT record is read
\* (no earlier event of the same thread is pending), and once the tape is
\* parsed every EVENT record of the tape is an event of the model.
C37_EventsPromoted ==
    (\A t \in Threads : todo[t] = <<>>) =>
    /\ AtRecord("EVENT") => ~event_panics(im, tape[pos])
    /\ phase = "parsed" =>
           Len(data.events) =
               Cardinality({i \in DOMAIN tape : tape[i].kind = "EVENT"})

\* C38: parsing a tape of register_callsite calls does not fail, and the
\* callsites of the parsed tape hold at most one entry for a callsite id,
\* also when a callsite has been registered more than once.
C38_OneEntryPerCallsite ==
    /\ phase # "panicked"
    /\ phase = "parsed" =>
           \A i, j \in DOMAIN im.callsites :
               im.callsites[i].id = im.callsites[j].id => i = j

\* C39: once a tape is parsed, every span whose SPAN_OPEN and SPAN_CLOSE
\* records were read is in spans exactly once, the root spans are exactly
\* the spans without a parent, every span with a parent is the child of
\* that parent by exactly one edge, also when the parent of a closed span
\* is never closed.
ParentOf(id) ==
    LET node == CHOOSE n \in DOMAIN im.span_graph : im.span_graph[n].id = id
    IN  im.span_graph[node].parent_id
C39_ClosedSpansInForest ==
    phase = "parsed" =>
        /\ \A id \in SpanIds :
               (/\ \E i \in DOMAIN tape :
                      tape[i].kind = "SPAN_OPEN" /\ tape[i].id = id
                /\ \E i \in DOMAIN tape :
                      tape[i].kind = "SPAN_CLOSE" /\ tape[i].id = id)
               => Cardinality({i \in DOMAIN data.spans :
                                  data.spans[i].id = id}) = 1
        /\ \A i \in DOMAIN data.spans :
               LET parent == ParentOf(data.spans[i].id)
                   edges == {e \in DOMAIN data.span_edges :
                                data.span_edges[e][2] = i}
                   roots == {r \in DOMAIN data.root_spans :
                                data.root_spans[r] = i}
               IN  IF parent = 0
                   THEN Cardinality(roots) = 1 /\ edges = {}
                   ELSE /\ roots = {}
                        /\ Cardinality(edges) = 1
                        /\ \A e \in edges :
                               data.spans[data.span_edges[e][1]].id = parent

====
